---- MODULE Spec2Model ----
(***************************************************************************)
(* Cave-planner: the gas-consumption engine calculateDive                  *)
(* (src/src/lib/gasCalculations.ts) as a state machine.                    *)
(*                                                                         *)
(* One run of calculateDive is one behaviour: Init is the state after the  *)
(* set-up code (lines 43-108) for some configuration and section list,     *)
(* FirstPass is one iteration of the simulation loop (lines 110-270),      *)
(* BeginSecondPass is lines 273-279, SecondPass is one iteration of the    *)
(* second loop (lines 281-401) and Return is the return statement.         *)
(*                                                                         *)
(* The editor around it (App.svelte) has specifications of its own.  Each  *)
(* starts from the editor as it is once it has been opened on a stored     *)
(* plan.  SpecFix has the Fix button (SectionList.svelte), SpecCalls the   *)
(* inputs of the section list, SpecInsert and SpecLoop the editor left     *)
(* alone, and SpecStorage the inputs of the configuration form, the        *)
(* reopening of the page and the browser's localStorage (storage.ts).      *)
(* Every one of them has the auto-insert effect.  An input that assigns    *)
(* the section list or the configuration makes the calculation run again   *)
(* and is saved (App.svelte lines 24-33); the effect runs before the next  *)
(* input is taken.  On the plans of SpecFix, SpecInsert and SpecStorage    *)
(* the effect comes to rest by itself; SpecLoop and SpecCalls reach plans  *)
(* on which it does not (see C32) and follow its first runs there.         *)
(*                                                                         *)
(* Numbers.  The source computes in IEEE doubles.  The model computes in   *)
(* integers: litres, bars of a stage, minutes and metres are integers, and *)
(* the inputs are drawn from sets for which every such quantity of the     *)
(* source is a whole number (see PlanFamilies).  A primary-gas pressure    *)
(* (litres / tank volume) is in general not whole and is held as the exact *)
(* fraction [num, den], and so is the volume of a stage tank (5.5 L);      *)
(* Math.floor, Math.ceil and Math.round are computed on that fraction.     *)
(* Where the rounding of the doubles decides the result (the split         *)
(* distance of an advisory), the model follows the doubles.                *)
(***************************************************************************)
EXTENDS Integers, Sequences, FiniteSets, TLC

VARIABLES
    standingData,            \* input: StandingData
    sections,                \* input: Section[]
    pc,                      \* "first" | "between" | "second" | "return" | "done"
    si,                      \* loop index, 1-based (source: 0-based)
    stageStates,             \* StageState[] (mutable stage tracking)
    remainingBackGasLiters,
    backGasUsedTotal,
    runningTime,
    timeDepthProduct,
    currentDepth,
    isWayBack,               \* direction for the NEXT section
    results,                 \* SectionResult[]
    pendingDropInserts,      \* advisories
    totalBackGasUsedAtEnd,
    activeRecalcTurnPressure, \* None or Some(fraction)
    fixed,                   \* history: None, or Some(the last call of fixDistance on this list)
    returned,                \* history: None, or Some(the first call that returned)
    localStorage,            \* the browser's storage: key -> None or Some(text) (storage.ts)
    saved,                   \* history: key -> Some(the value saved last), None after a foreign write
    loaded,                  \* history: key -> None, or Some(the last load of the key)
    edits,                   \* the number of inputs taken (edits by hand, reopenings)
    effectRuns,              \* runs of the auto-insert effect since the last edit
    dragIndex                \* None, or Some(position of the card being dragged)

vars == <<standingData, sections, pc, si, stageStates, remainingBackGasLiters,
          backGasUsedTotal, runningTime, timeDepthProduct, currentDepth,
          isWayBack, results, pendingDropInserts, totalBackGasUsedAtEnd,
          activeRecalcTurnPressure, fixed, returned, localStorage, saved, loaded,
          edits, effectRuns, dragIndex>>

----------------------------------------------------------------------------
(* Optional values (undefined / null of the source). *)
None == <<>>
Some(x) == <<x>>
IsSome(o) == Len(o) = 1
Get(o) == o[1]

(* `o ?? d`: the value when there is one, else d *)
OrElse(o, d) == IF IsSome(o) THEN Get(o) ELSE d

(* `o && ...` for an optional string: present and not the empty string *)
Truthy(o) == IsSome(o) /\ Get(o) # ""

(* Exact fractions, denominators are positive. *)
Rat(n, d) == [num |-> n, den |-> d]
RatLess(a, b) == a.num * b.den < b.num * a.den
RatLeq(a, b) == a.num * b.den <= b.num * a.den
RatEq(a, b) == a.num * b.den = b.num * a.den
RatPos(a) == a.num > 0

(* Math.floor(x / 10) * 10 and Math.ceil(x / 10) * 10 for x = n / d, d > 0 *)
(* (\div rounds towards minus infinity, as Math.floor does).               *)
FloorTo10(n, d) == (n \div (d * 10)) * 10
CeilTo10(n, d) == (0 - ((0 - n) \div (d * 10))) * 10

(* mutant: truncation instead of rounding to nearest *)
MathRound_Floor(n, d) == n \div d

(* Math.round(n / d) for d > 0: nearest integer, halves towards +infinity. *)
MathRound(n, d) == (2 * n + d) \div (2 * d)

Max(a, b) == IF a >= b THEN a ELSE b

RECURSIVE Pow2(_)
Pow2(n) == IF n = 0 THEN 1 ELSE 2 * Pow2(n - 1)

(* (a * 2^n) % b, by doubling modulo b *)
RECURSIVE Pow2Mod(_, _, _)
Pow2Mod(a, n, b) == IF n = 0 THEN a % b ELSE (2 * Pow2Mod(a, n - 1, b)) % b

(* for 0 < a < b: the k >= 1 with 2^-k <= a / b < 2^-(k - 1) *)
RECURSIVE BinaryExponent(_, _, _)
BinaryExponent(a, b, k) == IF Pow2(k) * a >= b THEN k ELSE BinaryExponent(a, b, k + 1)

(* for m >= 1: the E with 2^E <= m < 2^(E + 1) *)
RECURSIVE FloorLog2(_)
FloorLog2(m) == IF m <= 1 THEN 0 ELSE 1 + FloorLog2(m \div 2)

(* Math.round((a / b) * c) as IEEE doubles compute it, for integers         *)
(* 0 <= a <= b, b > 0, c >= 0.  The quotient a / b is rounded to 53 bits    *)
(* and the product is rounded again, so the result of the two operations    *)
(* differs from the exact a * c / b by far less than 1 / (2 * b): it can    *)
(* change the rounded integer only when a * c / b is exactly m + 1/2.       *)
(* Then, with 2^-k <= a / b < 2^-(k - 1), the double quotient is            *)
(* Q / 2^(52 + k) for the integer Q nearest to a * 2^(52 + k) / b, and      *)
(* r = (a * 2^(52 + k)) % b tells the direction: for 2 * r > b, or r = 0,   *)
(* the quotient is not below a / b and the product is not below m + 1/2:    *)
(* Math.round gives m + 1.  For 0 < 2 * r < b the quotient falls short by   *)
(* r / (b * 2^(52 + k)) and the exact product by r * c / (b * 2^(52 + k));  *)
(* the product is stored as a double below m + 1/2, and Math.round gives m, *)
(* exactly when that exceeds half the distance from m + 1/2 to the double   *)
(* below it, which is 2^(E - 53) for 2^E <= m + 1/2 < 2^(E + 1), m >= 1,    *)
(* and 2^-55 for m = 0.  (2 * r = b needs b >= 2^54.)                       *)
DoubleRoundOfProduct(a, b, c) ==
    IF (2 * a * c) % (2 * b) # b THEN MathRound(a * c, b)
    ELSE LET m == (a * c) \div b
             k == BinaryExponent(a, b, 1)
             r == Pow2Mod(a, 52 + k, b)
             below == IF 2 * r >= b \/ r = 0 THEN FALSE
                      ELSE IF m >= 1 THEN r * c > b * Pow2(k + FloorLog2(m) - 1)
                      ELSE 8 * r * c > b * Pow2(k)
         IN IF below THEN m ELSE m + 1

(* n / d where the source's quotient is a whole number.  The inputs of the  *)
(* model are chosen so that it always is; any other input has no value.     *)
ExactDiv(n, d) == IF n % d = 0 THEN n \div d ELSE CHOOSE q \in {} : FALSE

----------------------------------------------------------------------------
(* types.ts *)
BOTTOM_GAS_TYPES == << [name |-> "2x80", volume |-> 22], [name |-> "d12", volume |-> 24] >>

(* The volume of a stage tank is a fraction of litres: 5.5 is 11 / 2. *)
STAGE_TANK_TYPES ==
    << [name |-> "alu80", label |-> "Alu80 (11L)", volume |-> Rat(11, 1)],
       [name |-> "alu40", label |-> "Alu40 (5.5L)", volume |-> Rat(11, 2)] >>

getBottomGasVolume(type) ==
    IF \E i \in 1..Len(BOTTOM_GAS_TYPES) : BOTTOM_GAS_TYPES[i].name = type
    THEN LET i == CHOOSE i \in 1..Len(BOTTOM_GAS_TYPES) :
                      /\ BOTTOM_GAS_TYPES[i].name = type
                      /\ \A j \in 1..(i - 1) : BOTTOM_GAS_TYPES[j].name # type
         IN BOTTOM_GAS_TYPES[i].volume
    ELSE 22

getStageVolume(type) ==
    IF \E i \in 1..Len(STAGE_TANK_TYPES) : STAGE_TANK_TYPES[i].name = type
    THEN LET i == CHOOSE i \in 1..Len(STAGE_TANK_TYPES) :
                      /\ STAGE_TANK_TYPES[i].name = type
                      /\ \A j \in 1..(i - 1) : STAGE_TANK_TYPES[j].name # type
         IN STAGE_TANK_TYPES[i].volume
    ELSE Rat(11, 1)

(* pressure * volume and litres / volume for a stage tank *)
Litres(bar, volume) == ExactDiv(bar * volume.num, volume.den)
Bars(litres, volume) == ExactDiv(litres * volume.den, volume.num)

----------------------------------------------------------------------------
(* calculateDive, set-up (lines 43-66) *)
bottomGasVolume(sd) == getBottomGasVolume(sd.bottomGasType)
totalBackGas(sd) == bottomGasVolume(sd) * sd.bottomGasFillPressure

(* mutant: the margin of 15 bar is taken off instead of added *)
StageDropPressure_MarginBelow(fillPressure) == ExactDiv(fillPressure, 2) - 15

(* stage.fillPressure / 2 + 15; fill pressures of the model are even *)
StageDropPressure(fillPressure) == ExactDiv(fillPressure, 2) + 15

RECURSIVE StageReservationFrom(_, _)
StageReservationFrom(stages, k) ==
    IF k > Len(stages) THEN 0
    ELSE (IF stages[k].reserveInBackGas
          THEN Litres(stages[k].fillPressure - StageDropPressure(stages[k].fillPressure),
                      getStageVolume(stages[k].tankType))
          ELSE 0) + StageReservationFrom(stages, k + 1)

stageReservation(sd) == StageReservationFrom(sd.stages, 1)
effectiveBackGas(sd) == totalBackGas(sd) - stageReservation(sd)
conservatismLiters(sd) == OrElse(sd.conservatism, 0) * bottomGasVolume(sd)

(* usableBackGas = effectiveBackGas / 3 - conservatismLiters, as a fraction *)
usableBackGas(sd) == Rat(effectiveBackGas(sd) - 3 * conservatismLiters(sd), 3)

(* mutant: the turn pressure is rounded down *)
turnPressureBar_Floor(sd) ==
    IF bottomGasVolume(sd) > 0
    THEN FloorTo10(3 * totalBackGas(sd) - usableBackGas(sd).num, 3 * bottomGasVolume(sd))
    ELSE 0

(* Math.ceil((totalBackGas - usableBackGas) / bottomGasVolume / 10) * 10 *)
turnPressureBar(sd) ==
    IF bottomGasVolume(sd) > 0
    THEN CeilTo10(3 * totalBackGas(sd) - usableBackGas(sd).num, 3 * bottomGasVolume(sd))
    ELSE 0

(* mutant: the usable pressure is rounded up *)
usableBackGasRounded_Ceil(sd) ==
    IF bottomGasVolume(sd) > 0
    THEN Rat(CeilTo10(usableBackGas(sd).num, 3 * bottomGasVolume(sd)) * bottomGasVolume(sd), 1)
    ELSE usableBackGas(sd)

(* Math.floor(usableBackGas / bottomGasVolume / 10) * 10 * bottomGasVolume *)
usableBackGasRounded(sd) ==
    IF bottomGasVolume(sd) > 0
    THEN Rat(FloorTo10(usableBackGas(sd).num, 3 * bottomGasVolume(sd)) * bottomGasVolume(sd), 1)
    ELSE usableBackGas(sd)

(* mutant: a stage-drop section counts as an explicit marker on any leg *)
RECURSIVE ExplicitDropFrom_AnyLeg(_, _, _)
ExplicitDropFrom_AnyLeg(secs, k, wb) ==
    IF k > Len(secs) THEN {}
    ELSE (IF secs[k].type = "stage-drop" /\ Truthy(secs[k].stageId)
          THEN {Get(secs[k].stageId)} ELSE {})
            \cup ExplicitDropFrom_AnyLeg(secs, k + 1, wb)

(* lines 68-81: ids of stages with a stage-drop section at a way-in position *)
RECURSIVE ExplicitDropFrom(_, _, _)
ExplicitDropFrom(secs, k, wb) ==
    IF k > Len(secs) THEN {}
    ELSE LET s == secs[k]
             wb2 == IF s.type = "turnaround" THEN ~wb
                    ELSE IF s.type = "recalculation" THEN FALSE
                    ELSE wb
         IN (IF s.type = "stage-drop" /\ Truthy(s.stageId) /\ ~wb2
             THEN {Get(s.stageId)} ELSE {})
                \cup ExplicitDropFrom(secs, k + 1, wb2)

explicitDropStageIds(secs) == ExplicitDropFrom(secs, 1, FALSE)

(* lines 84-95 *)
InitialStageStates(sd) ==
    [k \in 1..Len(sd.stages) |->
        [id |-> sd.stages[k].id,
         tankType |-> sd.stages[k].tankType,
         initialPressure |-> sd.stages[k].fillPressure,
         currentPressure |-> sd.stages[k].fillPressure,
         volume |-> getStageVolume(sd.stages[k].tankType),
         dropPressure |-> StageDropPressure(sd.stages[k].fillPressure),
         dropped |-> FALSE]]

----------------------------------------------------------------------------
Includes(seq, x) == \E i \in 1..Len(seq) : seq[i] = x
PushNew(seq, x) == IF Includes(seq, x) THEN seq ELSE Append(seq, x)

(* mutant: an id that matches no stage finds the first stage *)
FindStage_FirstIfMissing(states, id) ==
    IF \E k \in 1..Len(states) : Some(states[k].id) = id
    THEN CHOOSE k \in 1..Len(states) :
            /\ Some(states[k].id) = id
            /\ \A j \in 1..(k - 1) : Some(states[j].id) # id
    ELSE IF Len(states) > 0 THEN 1 ELSE 0

(* stageStates.find((s) => s.id === section.stageId): index of the first    *)
(* match, 0 if none; id is the section's optional stageId, and a section    *)
(* without one matches no stage (a stage whose id is "" included)           *)
FindStage(states, id) ==
    IF \E k \in 1..Len(states) : Some(states[k].id) = id
    THEN CHOOSE k \in 1..Len(states) :
            /\ Some(states[k].id) = id
            /\ \A j \in 1..(k - 1) : Some(states[j].id) # id
    ELSE 0

(* mutant: the last eligible stage instead of the first *)
FindActiveStage_Last(states, skippedStageIds) ==
    IF \E k \in 1..Len(states) : ~states[k].dropped /\ states[k].id \notin skippedStageIds
    THEN CHOOSE k \in 1..Len(states) :
            /\ ~states[k].dropped /\ states[k].id \notin skippedStageIds
            /\ \A j \in (k + 1)..Len(states) : states[j].dropped \/ states[j].id \in skippedStageIds
    ELSE 0

(* lines 175-177: first stage that is not dropped and not skipped, 0 if none *)
FindActiveStage(states, skippedStageIds) ==
    IF \E k \in 1..Len(states) : ~states[k].dropped /\ states[k].id \notin skippedStageIds
    THEN CHOOSE k \in 1..Len(states) :
            /\ ~states[k].dropped /\ states[k].id \notin skippedStageIds
            /\ \A j \in 1..(k - 1) : states[j].dropped \/ states[j].id \in skippedStageIds
    ELSE 0

(* lines 193-200 and 222-229: the advisory pushed at an inline drop *)
DropInsert(section, stageId, consumed, gasNeeded) ==
    [afterSectionId |-> section.id,
     stageId |-> stageId,
     splitAtDistance |->
        IF section.type = "swim" /\ gasNeeded > 0
        THEN Some(DoubleRoundOfProduct(consumed, gasNeeded, section.distance))
        ELSE None]

(* lines 174-232: the while loop that draws the demand from the stages.     *)
(* c = [remaining, stageStates, skippedStageIds, droppedThisSection,        *)
(*      breathedStageIds, pendingDropInserts]                               *)
RECURSIVE ConsumeFromStages(_, _, _, _)
ConsumeFromStages(section, gasNeeded, explicit, c) ==
    IF ~(c.remaining > 0 /\ section.type # "stage-drop") THEN c
    ELSE
    LET k == FindActiveStage(c.stageStates, c.skippedStageIds) IN
    IF k = 0 THEN c
    ELSE
    LET activeStage == c.stageStates[k]
        availableFromStage ==
            Litres(activeStage.currentPressure - activeStage.dropPressure, activeStage.volume)
    IN
    IF availableFromStage <= 0 THEN
        IF activeStage.id \in explicit
        THEN ConsumeFromStages(section, gasNeeded, explicit,
                [c EXCEPT !.skippedStageIds = @ \cup {activeStage.id}])
        ELSE ConsumeFromStages(section, gasNeeded, explicit,
                [c EXCEPT !.stageStates[k].dropped = TRUE,
                          !.droppedThisSection = Append(@, activeStage.id),
                          !.pendingDropInserts = Append(@,
                              DropInsert(section, activeStage.id,
                                         gasNeeded - c.remaining, gasNeeded))])
    ELSE IF c.remaining <= availableFromStage THEN
        ConsumeFromStages(section, gasNeeded, explicit,
            [c EXCEPT !.stageStates[k].currentPressure =
                          @ - Bars(c.remaining, activeStage.volume),
                      !.remaining = 0,
                      !.breathedStageIds = PushNew(@, activeStage.id)])
    ELSE
        LET remaining2 == c.remaining - availableFromStage
            c2 == [c EXCEPT !.remaining = remaining2,
                            !.stageStates[k].currentPressure = activeStage.dropPressure,
                            !.breathedStageIds =
                                IF availableFromStage > 0
                                THEN PushNew(@, activeStage.id) ELSE @]
        IN
        IF activeStage.id \in explicit
        THEN ConsumeFromStages(section, gasNeeded, explicit,
                [c2 EXCEPT !.skippedStageIds = @ \cup {activeStage.id}])
        ELSE ConsumeFromStages(section, gasNeeded, explicit,
                [c2 EXCEPT !.stageStates[k].dropped = TRUE,
                           !.droppedThisSection = Append(@, activeStage.id),
                           !.pendingDropInserts = Append(@,
                               DropInsert(section, activeStage.id,
                                          gasNeeded - remaining2, gasNeeded))])

(* mutant: a pickup clears the dropped flag and keeps the drop pressure *)
StageEvent_KeepsDropPressure(states, section, sectionIsWayBack) ==
    LET k == FindStage(states, section.stageId) IN
    IF k = 0 THEN states
    ELSE IF sectionIsWayBack
         THEN IF states[k].dropped THEN [states EXCEPT ![k].dropped = FALSE] ELSE states
         ELSE IF ~states[k].dropped THEN [states EXCEPT ![k].dropped = TRUE] ELSE states

(* mutant: a pickup refills the stage *)
StageEvent_Refill(states, section, sectionIsWayBack) ==
    LET k == FindStage(states, section.stageId) IN
    IF k = 0 THEN states
    ELSE IF sectionIsWayBack
         THEN IF states[k].dropped
              THEN [states EXCEPT ![k].dropped = FALSE, ![k].dropPressure = 0,
                                  ![k].currentPressure = states[k].initialPressure]
              ELSE states
         ELSE IF ~states[k].dropped
              THEN [states EXCEPT ![k].dropped = TRUE]
              ELSE states

(* lines 130-144: a stage-drop section marks its stage dropped on the way   *)
(* in and picks it up on the way back                                       *)
StageEvent(states, section, sectionIsWayBack) ==
    LET k == FindStage(states, section.stageId) IN
    IF k = 0 THEN states
    ELSE IF sectionIsWayBack
         THEN IF states[k].dropped
              THEN [states EXCEPT ![k].dropped = FALSE, ![k].dropPressure = 0]
              ELSE states
         ELSE IF ~states[k].dropped
              THEN [states EXCEPT ![k].dropped = TRUE]
              ELSE states

(* mutant: a recalculation leaves the direction as it is *)
NextDirection_NoReset(section, wayBack) ==
    IF section.type = "turnaround" THEN ~wayBack ELSE wayBack

(* lines 115-119: direction for the next section *)
NextDirection(section, wayBack) ==
    IF section.type = "turnaround" THEN ~wayBack
    ELSE IF section.type = "recalculation" THEN FALSE
    ELSE wayBack

(* mutant: a swim speed that is not positive counts as 1 m/min *)
SectionTime_SlowSwim(sd, section) ==
    IF section.type \in {"turnaround", "recalculation"} THEN 0
    ELSE IF section.type = "stage-drop" THEN OrElse(sd.stageStandingTime, 2)
    ELSE IF section.type = "swim"
         THEN IF sd.swimSpeed > 0 THEN ExactDiv(section.distance, sd.swimSpeed)
              ELSE section.distance
    ELSE IF section.type \in {"t-left", "t-right"} THEN 0
    ELSE 2

(* lines 121-159: time of a section *)
SectionTime(sd, section) ==
    IF section.type \in {"turnaround", "recalculation"} THEN 0
    ELSE IF section.type = "stage-drop" THEN OrElse(sd.stageStandingTime, 2)
    ELSE IF section.type = "swim"
         THEN IF sd.swimSpeed > 0 THEN ExactDiv(section.distance, sd.swimSpeed) ELSE 0
    ELSE IF section.type \in {"t-left", "t-right"} THEN 0
    ELSE 2

(* mutant: every section is at its own avgDepth *)
SectionDepth_OwnDepth(section, depthBefore) == section.avgDepth

(* lines 121-159: depth of a section *)
SectionDepth(section, depthBefore) ==
    IF section.type = "swim" THEN section.avgDepth ELSE depthBefore

(* lines 161-162: scr * (depth / 10 + 1) * time *)
GasNeeded(sd, depth, time) == ExactDiv(sd.scr * (depth + 10) * time, 10)

(* mutant: a section sitting exactly at the turn pressure is flagged too *)
TurnWarning_AtOrBelow(sd, sectionIsWayBack, remainingBackGasBar) ==
    /\ ~sectionIsWayBack
    /\ RatLeq(remainingBackGasBar, Rat(turnPressureBar(sd), 1))
    /\ turnPressureBar(sd) > 0

(* mutant: the direction is not looked at *)
TurnWarning_AnyDirection(sd, sectionIsWayBack, remainingBackGasBar) ==
    /\ RatLess(remainingBackGasBar, Rat(turnPressureBar(sd), 1))
    /\ turnPressureBar(sd) > 0

(* mutant: no warning once the primary gas is used up *)
TurnWarning_WhileGasLeft(sd, sectionIsWayBack, remainingBackGasBar) ==
    /\ ~sectionIsWayBack
    /\ RatLess(remainingBackGasBar, Rat(turnPressureBar(sd), 1))
    /\ turnPressureBar(sd) > 0
    /\ RatPos(remainingBackGasBar)

(* line 249 *)
TurnWarning(sd, sectionIsWayBack, remainingBackGasBar) ==
    /\ ~sectionIsWayBack
    /\ RatLess(remainingBackGasBar, Rat(turnPressureBar(sd), 1))
    /\ turnPressureBar(sd) > 0

(* mutant: every result holds the live stage array instead of a copy *)
FinishSection_SharedSnapshot(sd, section, s, time, depth, gasNeeded, c) ==
    LET sectionIsWayBack == s.isWayBack
        fromBackGas == IF c.remaining > 0 THEN c.remaining ELSE 0
        remainingLiters == s.remainingBackGasLiters - fromBackGas
        usedTotal == s.backGasUsedTotal + fromBackGas
        runningTime2 == s.runningTime + time
        timeDepthProduct2 == s.timeDepthProduct + time * depth
        remainingBackGasBar ==
            IF bottomGasVolume(sd) > 0
            THEN Rat(remainingLiters, bottomGasVolume(sd))
            ELSE Rat(0, 1)
        turnWarning == TurnWarning(sd, sectionIsWayBack, remainingBackGasBar)
    IN
    [stageStates |-> c.stageStates,
     remainingBackGasLiters |-> remainingLiters,
     backGasUsedTotal |-> usedTotal,
     runningTime |-> runningTime2,
     timeDepthProduct |-> timeDepthProduct2,
     currentDepth |-> depth,
     isWayBack |-> NextDirection(section, s.isWayBack),
     pendingDropInserts |-> c.pendingDropInserts,
     results |-> Append([k \in 1..Len(s.results) |->
                            [s.results[k] EXCEPT !.stageStates = c.stageStates]],
        [sectionId |-> section.id,
         time |-> time,
         depth |-> depth,
         gasConsumed |-> gasNeeded,
         runningTime |-> runningTime2,
         runningAvgDepth |-> IF runningTime2 > 0
                             THEN Rat(timeDepthProduct2, runningTime2)
                             ELSE Rat(0, 1),
         remainingBackGasLiters |-> remainingLiters,
         remainingBackGasBar |-> remainingBackGasBar,
         stageStates |-> c.stageStates,
         stageDroppedIds |-> c.droppedThisSection,
         turnWarning |-> turnWarning,
         backGasUsedTotal |-> usedTotal,
         effectiveBackGas |-> effectiveBackGas(sd),
         usableBackGas |-> usableBackGas(sd),
         breathedStageIds |-> c.breathedStageIds,
         breathedBackGas |-> c.remaining > 0,
         isWayBack |-> sectionIsWayBack,
         recalculation |-> None])]

(* mutant: the remaining primary volume is clamped at 0 *)
FinishSection_Clamped(sd, section, s, time, depth, gasNeeded, c) ==
    LET sectionIsWayBack == s.isWayBack
        fromBackGas == IF c.remaining > 0 THEN c.remaining ELSE 0
        remainingLiters == Max(0, s.remainingBackGasLiters - fromBackGas)
        usedTotal == s.backGasUsedTotal + fromBackGas
        runningTime2 == s.runningTime + time
        timeDepthProduct2 == s.timeDepthProduct + time * depth
        remainingBackGasBar ==
            IF bottomGasVolume(sd) > 0
            THEN Rat(remainingLiters, bottomGasVolume(sd))
            ELSE Rat(0, 1)
        turnWarning == TurnWarning(sd, sectionIsWayBack, remainingBackGasBar)
    IN
    [stageStates |-> c.stageStates,
     remainingBackGasLiters |-> remainingLiters,
     backGasUsedTotal |-> usedTotal,
     runningTime |-> runningTime2,
     timeDepthProduct |-> timeDepthProduct2,
     currentDepth |-> depth,
     isWayBack |-> NextDirection(section, s.isWayBack),
     pendingDropInserts |-> c.pendingDropInserts,
     results |-> Append(s.results,
        [sectionId |-> section.id,
         time |-> time,
         depth |-> depth,
         gasConsumed |-> gasNeeded,
         runningTime |-> runningTime2,
         runningAvgDepth |-> IF runningTime2 > 0
                             THEN Rat(timeDepthProduct2, runningTime2)
                             ELSE Rat(0, 1),
         remainingBackGasLiters |-> remainingLiters,
         remainingBackGasBar |-> remainingBackGasBar,
         stageStates |-> c.stageStates,
         stageDroppedIds |-> c.droppedThisSection,
         turnWarning |-> turnWarning,
         backGasUsedTotal |-> usedTotal,
         effectiveBackGas |-> effectiveBackGas(sd),
         usableBackGas |-> usableBackGas(sd),
         breathedStageIds |-> c.breathedStageIds,
         breathedBackGas |-> c.remaining > 0,
         isWayBack |-> sectionIsWayBack,
         recalculation |-> None])]

(* mutant: only swims count in the running time *)
FinishSection_SwimTimeOnly(sd, section, s, time, depth, gasNeeded, c) ==
    LET sectionIsWayBack == s.isWayBack
        fromBackGas == IF c.remaining > 0 THEN c.remaining ELSE 0
        remainingLiters == s.remainingBackGasLiters - fromBackGas
        usedTotal == s.backGasUsedTotal + fromBackGas
        runningTime2 == s.runningTime + (IF section.type = "swim" THEN time ELSE 0)
        timeDepthProduct2 == s.timeDepthProduct + time * depth
        remainingBackGasBar ==
            IF bottomGasVolume(sd) > 0
            THEN Rat(remainingLiters, bottomGasVolume(sd))
            ELSE Rat(0, 1)
        turnWarning == TurnWarning(sd, sectionIsWayBack, remainingBackGasBar)
    IN
    [stageStates |-> c.stageStates,
     remainingBackGasLiters |-> remainingLiters,
     backGasUsedTotal |-> usedTotal,
     runningTime |-> runningTime2,
     timeDepthProduct |-> timeDepthProduct2,
     currentDepth |-> depth,
     isWayBack |-> NextDirection(section, s.isWayBack),
     pendingDropInserts |-> c.pendingDropInserts,
     results |-> Append(s.results,
        [sectionId |-> section.id,
         time |-> time,
         depth |-> depth,
         gasConsumed |-> gasNeeded,
         runningTime |-> runningTime2,
         runningAvgDepth |-> IF runningTime2 > 0
                             THEN Rat(timeDepthProduct2, runningTime2)
                             ELSE Rat(0, 1),
         remainingBackGasLiters |-> remainingLiters,
         remainingBackGasBar |-> remainingBackGasBar,
         stageStates |-> c.stageStates,
         stageDroppedIds |-> c.droppedThisSection,
         turnWarning |-> turnWarning,
         backGasUsedTotal |-> usedTotal,
         effectiveBackGas |-> effectiveBackGas(sd),
         usableBackGas |-> usableBackGas(sd),
         breathedStageIds |-> c.breathedStageIds,
         breathedBackGas |-> c.remaining > 0,
         isWayBack |-> sectionIsWayBack,
         recalculation |-> None])]

(* lines 234-270: the rest of the demand is drawn from primary gas, the     *)
(* running aggregates are updated and the result is pushed.                 *)
(* s = [stageStates, remainingBackGasLiters, backGasUsedTotal, runningTime, *)
(*      timeDepthProduct, currentDepth, isWayBack, results,                 *)
(*      pendingDropInserts]; c is the outcome of ConsumeFromStages          *)
FinishSection(sd, section, s, time, depth, gasNeeded, c) ==
    LET sectionIsWayBack == s.isWayBack
        fromBackGas == IF c.remaining > 0 THEN c.remaining ELSE 0
        remainingLiters == s.remainingBackGasLiters - fromBackGas
        usedTotal == s.backGasUsedTotal + fromBackGas
        runningTime2 == s.runningTime + time
        timeDepthProduct2 == s.timeDepthProduct + time * depth
        remainingBackGasBar ==
            IF bottomGasVolume(sd) > 0
            THEN Rat(remainingLiters, bottomGasVolume(sd))
            ELSE Rat(0, 1)
        turnWarning == TurnWarning(sd, sectionIsWayBack, remainingBackGasBar)
    IN
    [stageStates |-> c.stageStates,
     remainingBackGasLiters |-> remainingLiters,
     backGasUsedTotal |-> usedTotal,
     runningTime |-> runningTime2,
     timeDepthProduct |-> timeDepthProduct2,
     currentDepth |-> depth,
     isWayBack |-> NextDirection(section, s.isWayBack),
     pendingDropInserts |-> c.pendingDropInserts,
     results |-> Append(s.results,
        [sectionId |-> section.id,
         time |-> time,
         depth |-> depth,
         gasConsumed |-> gasNeeded,
         runningTime |-> runningTime2,
         runningAvgDepth |-> IF runningTime2 > 0
                             THEN Rat(timeDepthProduct2, runningTime2)
                             ELSE Rat(0, 1),
         remainingBackGasLiters |-> remainingLiters,
         remainingBackGasBar |-> remainingBackGasBar,
         stageStates |-> c.stageStates,
         stageDroppedIds |-> c.droppedThisSection,
         turnWarning |-> turnWarning,
         backGasUsedTotal |-> usedTotal,
         effectiveBackGas |-> effectiveBackGas(sd),
         usableBackGas |-> usableBackGas(sd),
         breathedStageIds |-> c.breathedStageIds,
         breathedBackGas |-> c.remaining > 0,
         isWayBack |-> sectionIsWayBack,
         recalculation |-> None])]

(* mutant: the standing time of a stage-drop section is breathed from the  *)
(* stages first, like the time of a jump                                    *)
SimulateSection_StagesFirst(sd, explicit, section, s) ==
    LET time == SectionTime(sd, section)
        depth == SectionDepth(section, s.currentDepth)
        gasNeeded == GasNeeded(sd, depth, time)
    IN FinishSection(sd, section, s, time, depth, gasNeeded,
          ConsumeFromStages(IF section.type = "stage-drop"
                            THEN [section EXCEPT !.type = "jump-left"] ELSE section,
                            gasNeeded, explicit,
                [remaining |-> gasNeeded,
                 stageStates |-> IF section.type = "stage-drop"
                                 THEN StageEvent(s.stageStates, section, s.isWayBack)
                                 ELSE s.stageStates,
                 skippedStageIds |-> {},
                 droppedThisSection |-> <<>>,
                 breathedStageIds |-> <<>>,
                 pendingDropInserts |-> s.pendingDropInserts]))

(* lines 110-270: one iteration of the simulation loop; explicit is the set *)
(* explicitDropStageIds built before the loop                               *)
SimulateSection(sd, explicit, section, s) ==
    LET time == SectionTime(sd, section)
        depth == SectionDepth(section, s.currentDepth)
        gasNeeded == GasNeeded(sd, depth, time)
    IN FinishSection(sd, section, s, time, depth, gasNeeded,
          ConsumeFromStages(section, gasNeeded, explicit,
                [remaining |-> gasNeeded,
                 stageStates |-> IF section.type = "stage-drop"
                                 THEN StageEvent(s.stageStates, section, s.isWayBack)
                                 ELSE s.stageStates,
                 skippedStageIds |-> {},
                 droppedThisSection |-> <<>>,
                 breathedStageIds |-> <<>>,
                 pendingDropInserts |-> s.pendingDropInserts]))

----------------------------------------------------------------------------
(* Second pass, lines 285-387: the RecalculationResult of a recalculation   *)
(* section, from its first-pass result and the primary gas used at the end  *)

(* lines 290-292: first stage that is not dropped and holds gas, 0 if none *)
FindKillStage(states) ==
    IF \E k \in 1..Len(states) : ~states[k].dropped /\ states[k].currentPressure > 0
    THEN CHOOSE k \in 1..Len(states) :
            /\ ~states[k].dropped /\ states[k].currentPressure > 0
            /\ \A j \in 1..(k - 1) : states[j].dropped \/ ~(states[j].currentPressure > 0)
    ELSE 0

(* lines 294-296 *)
DroppedStagesWithGas(states) ==
    {k \in 1..Len(states) : states[k].dropped /\ states[k].currentPressure > 0}

(* lines 332-335: sum of currentPressure * volume over the dropped stages *)
RECURSIVE ActualStageReservationFrom(_, _)
ActualStageReservationFrom(states, k) ==
    IF k > Len(states) THEN 0
    ELSE (IF k \in DroppedStagesWithGas(states)
          THEN Litres(states[k].currentPressure, states[k].volume) ELSE 0)
         + ActualStageReservationFrom(states, k + 1)

(* lines 305-307 *)
TankLabel(tankType) ==
    IF \E i \in 1..Len(STAGE_TANK_TYPES) : STAGE_TANK_TYPES[i].name = tankType
    THEN LET i == CHOOSE i \in 1..Len(STAGE_TANK_TYPES) :
                      /\ STAGE_TANK_TYPES[i].name = tankType
                      /\ \A j \in 1..(i - 1) : STAGE_TANK_TYPES[j].name # tankType
         IN STAGE_TANK_TYPES[i].label
    ELSE tankType

(* mutant: the stage and exit gas are compared with all of the primary gas *)
KillStageResult_NoHalf(sd, result, backGasToExit, activeStage) ==
    LET stageRemaining == Litres(activeStage.currentPressure, activeStage.volume)
        roundedBar == FloorTo10(activeStage.currentPressure, 1)
        roundedLiters == Litres(roundedBar, activeStage.volume)
    IN [possible |-> (backGasToExit + stageRemaining) <= result.remainingBackGasLiters,
        scenario |-> "kill-stage",
        availableGasLiters |-> roundedLiters,
        availableGasBar |-> roundedBar,
        gasSourceLabel |-> activeStage.tankType,
        gasSourceVolume |-> activeStage.volume,
        backGasToExitLiters |-> backGasToExit,
        backGasToExitBar |-> Rat(backGasToExit, bottomGasVolume(sd)),
        recalcTurnPressureBar |->
            FloorTo10(result.remainingBackGasBar.num, result.remainingBackGasBar.den),
        stageRemainingLiters |-> Some(roundedLiters),
        stageRemainingBar |-> Some(roundedBar),
        stageReservationLiters |-> None]

(* mutant: the kill-stage threshold is rounded up *)
KillStageResult_CeilTurn(sd, result, backGasToExit, activeStage) ==
    LET stageRemaining == Litres(activeStage.currentPressure, activeStage.volume)
        roundedBar == FloorTo10(activeStage.currentPressure, 1)
        roundedLiters == Litres(roundedBar, activeStage.volume)
    IN [possible |-> 2 * (backGasToExit + stageRemaining) <= result.remainingBackGasLiters,
        scenario |-> "kill-stage",
        availableGasLiters |-> roundedLiters,
        availableGasBar |-> roundedBar,
        gasSourceLabel |-> TankLabel(activeStage.tankType),
        gasSourceVolume |-> activeStage.volume,
        backGasToExitLiters |-> backGasToExit,
        backGasToExitBar |-> Rat(backGasToExit, bottomGasVolume(sd)),
        recalcTurnPressureBar |->
            CeilTo10(result.remainingBackGasBar.num, result.remainingBackGasBar.den),
        stageRemainingLiters |-> Some(roundedLiters),
        stageRemainingBar |-> Some(roundedBar),
        stageReservationLiters |-> None]

(* lines 298-328 *)
KillStageResult(sd, result, backGasToExit, activeStage) ==
    LET stageRemaining == Litres(activeStage.currentPressure, activeStage.volume)
        possible == 2 * (backGasToExit + stageRemaining) <= result.remainingBackGasLiters
        roundedBar == FloorTo10(activeStage.currentPressure, 1)
        roundedLiters == Litres(roundedBar, activeStage.volume)
        recalcTurn == FloorTo10(result.remainingBackGasBar.num, result.remainingBackGasBar.den)
    IN [possible |-> possible,
        scenario |-> "kill-stage",
        availableGasLiters |-> roundedLiters,
        availableGasBar |-> roundedBar,
        gasSourceLabel |-> TankLabel(activeStage.tankType),
        gasSourceVolume |-> activeStage.volume,
        backGasToExitLiters |-> backGasToExit,
        backGasToExitBar |-> IF bottomGasVolume(sd) > 0
                             THEN Rat(backGasToExit, bottomGasVolume(sd)) ELSE Rat(0, 1),
        recalcTurnPressureBar |-> recalcTurn,
        stageRemainingLiters |-> Some(roundedLiters),
        stageRemainingBar |-> Some(roundedBar),
        stageReservationLiters |-> None]

(* mutant: the exit gas is deducted once instead of twice *)
BackGasReentryResult_ExitOnce(sd, result, backGasToExit, reservation) ==
    LET reserved == IF IsSome(reservation) THEN Get(reservation) ELSE 0
        availableTimes3 == result.remainingBackGasLiters - reserved - backGasToExit
        roundedBar == FloorTo10(Max(0, availableTimes3), 3 * bottomGasVolume(sd))
    IN [possible |-> roundedBar > 0,
        scenario |-> "backgas-reentry",
        availableGasLiters |-> roundedBar * bottomGasVolume(sd),
        availableGasBar |-> roundedBar,
        gasSourceLabel |-> "Back Gas",
        gasSourceVolume |-> Rat(bottomGasVolume(sd), 1),
        backGasToExitLiters |-> backGasToExit,
        backGasToExitBar |-> Rat(backGasToExit, bottomGasVolume(sd)),
        recalcTurnPressureBar |->
            CeilTo10(result.remainingBackGasBar.num - roundedBar * result.remainingBackGasBar.den,
                     result.remainingBackGasBar.den),
        stageRemainingLiters |-> None,
        stageRemainingBar |-> None,
        stageReservationLiters |-> reservation]

(* mutant: feasible whenever the budget is positive, before rounding *)
BackGasReentryResult_AnyPositive(sd, result, backGasToExit, reservation) ==
    LET reserved == IF IsSome(reservation) THEN Get(reservation) ELSE 0
        \* available = availableTimes3 / 3
        availableTimes3 == result.remainingBackGasLiters - reserved - 2 * backGasToExit
        \* rawBar = Math.max(0, available) / bottomGasVolume
        roundedBar == IF bottomGasVolume(sd) > 0
                      THEN FloorTo10(Max(0, availableTimes3), 3 * bottomGasVolume(sd))
                      ELSE 0
        roundedLiters == roundedBar * bottomGasVolume(sd)
        recalcTurn ==
            CeilTo10(result.remainingBackGasBar.num - roundedBar * result.remainingBackGasBar.den,
                     result.remainingBackGasBar.den)
    IN [possible |-> availableTimes3 > 0,
        scenario |-> "backgas-reentry",
        availableGasLiters |-> roundedLiters,
        availableGasBar |-> roundedBar,
        gasSourceLabel |-> "Back Gas",
        gasSourceVolume |-> Rat(bottomGasVolume(sd), 1),
        backGasToExitLiters |-> backGasToExit,
        backGasToExitBar |-> IF bottomGasVolume(sd) > 0
                             THEN Rat(backGasToExit, bottomGasVolume(sd)) ELSE Rat(0, 1),
        recalcTurnPressureBar |-> recalcTurn,
        stageRemainingLiters |-> None,
        stageRemainingBar |-> None,
        stageReservationLiters |-> reservation]

(* lines 329-381: both back-gas branches; reservation is None in the last   *)
(* branch (no dropped stage holds gas) and Some(litres) in the second       *)
BackGasReentryResult(sd, result, backGasToExit, reservation) ==
    LET reserved == IF IsSome(reservation) THEN Get(reservation) ELSE 0
        \* available = availableTimes3 / 3
        availableTimes3 == result.remainingBackGasLiters - reserved - 2 * backGasToExit
        \* rawBar = Math.max(0, available) / bottomGasVolume
        roundedBar == IF bottomGasVolume(sd) > 0
                      THEN FloorTo10(Max(0, availableTimes3), 3 * bottomGasVolume(sd))
                      ELSE 0
        roundedLiters == roundedBar * bottomGasVolume(sd)
        recalcTurn ==
            CeilTo10(result.remainingBackGasBar.num - roundedBar * result.remainingBackGasBar.den,
                     result.remainingBackGasBar.den)
    IN [possible |-> roundedBar > 0,
        scenario |-> "backgas-reentry",
        availableGasLiters |-> roundedLiters,
        availableGasBar |-> roundedBar,
        gasSourceLabel |-> "Back Gas",
        gasSourceVolume |-> Rat(bottomGasVolume(sd), 1),
        backGasToExitLiters |-> backGasToExit,
        backGasToExitBar |-> IF bottomGasVolume(sd) > 0
                             THEN Rat(backGasToExit, bottomGasVolume(sd)) ELSE Rat(0, 1),
        recalcTurnPressureBar |-> recalcTurn,
        stageRemainingLiters |-> None,
        stageRemainingBar |-> None,
        stageReservationLiters |-> reservation]

(* mutant: a dropped stage that holds gas is looked for first *)
Recalculate_DroppedFirst(sd, result, usedAtEnd) ==
    LET backGasToExit == usedAtEnd - result.backGasUsedTotal
        k == FindKillStage(result.stageStates)
    IN IF Cardinality(DroppedStagesWithGas(result.stageStates)) > 0
       THEN BackGasReentryResult(sd, result, backGasToExit,
                Some(ActualStageReservationFrom(result.stageStates, 1)))
       ELSE IF k # 0
       THEN KillStageResult(sd, result, backGasToExit, result.stageStates[k])
       ELSE BackGasReentryResult(sd, result, backGasToExit, None)

(* lines 285-381 *)
Recalculate(sd, result, usedAtEnd) ==
    LET backGasToExit == usedAtEnd - result.backGasUsedTotal
        k == FindKillStage(result.stageStates)
    IN IF k # 0
       THEN KillStageResult(sd, result, backGasToExit, result.stageStates[k])
       ELSE IF Cardinality(DroppedStagesWithGas(result.stageStates)) > 0
       THEN BackGasReentryResult(sd, result, backGasToExit,
                Some(ActualStageReservationFrom(result.stageStates, 1)))
       ELSE BackGasReentryResult(sd, result, backGasToExit, None)

(* mutant: the reported threshold is used whether or not the re-entry is possible *)
RecalcThreshold_AlwaysReported(result, recalculation) ==
    Rat(recalculation.recalcTurnPressureBar, 1)

(* mutant: an infeasible recalculation leaves the pressure rounded up to a  *)
(* multiple of 10 in force                                                  *)
RecalcThreshold_RoundedUp(result, recalculation) ==
    IF recalculation.possible
    THEN Rat(recalculation.recalcTurnPressureBar, 1)
    ELSE Rat(CeilTo10(result.remainingBackGasBar.num, result.remainingBackGasBar.den), 1)

(* lines 383-385 *)
RecalcThreshold(result, recalculation) ==
    IF recalculation.possible
    THEN Rat(recalculation.recalcTurnPressureBar, 1)
    ELSE result.remainingBackGasBar

(* lines 393-395 *)
RecalcTurnWarning(result, threshold) ==
    RatLess(result.remainingBackGasBar, threshold) /\ RatPos(threshold)

----------------------------------------------------------------------------
(* Inputs.  A plan is a configuration and a list of at most MaxSections     *)
(* sections over the section shapes of its family.  Consumption rate 22,    *)
(* swim speed 10, depths that are multiples of 10 m, distances that are     *)
(* multiples of the swim speed and even stage fill pressures keep every     *)
(* demand a whole number of litres and of bars of an 11 L stage.            *)
MaxSections == 4

StageIds == {"s1", "s2", ""}

Stage(id, fill, reserve) ==
    [id |-> id, tankType |-> "alu80", fillPressure |-> fill, reserveInBackGas |-> reserve]

Alu40Stage(id, fill, reserve) ==
    [id |-> id, tankType |-> "alu40", fillPressure |-> fill, reserveInBackGas |-> reserve]

(* A configuration is held with the names of its properties in the order    *)
(* the object lists them (keys): conservatism and stageStandingTime are     *)
(* None in a configuration that has no such property.                       *)

(* App.svelte lines 14-20: the configuration the editor starts with when    *)
(* nothing is stored                                                        *)
DefaultKeys == << "scr", "swimSpeed", "bottomGasType", "bottomGasFillPressure", "stages" >>
DefaultStandingData ==
    [scr |-> 20, swimSpeed |-> 15, bottomGasType |-> "2x80",
     bottomGasFillPressure |-> 220, conservatism |-> None,
     stageStandingTime |-> None, stages |-> <<>>, keys |-> DefaultKeys]

(* a configuration of the editor: the two properties the default lacks were *)
(* entered later and are listed last                                        *)
StandingData(bottomGasType, fill, stages) ==
    [scr |-> 22, swimSpeed |-> 10, bottomGasType |-> bottomGasType,
     bottomGasFillPressure |-> fill, conservatism |-> Some(0),
     stageStandingTime |-> Some(2), stages |-> stages,
     keys |-> DefaultKeys \o << "conservatism", "stageStandingTime" >>]

(* the configuration of the repository's tests (makeStandingData): rate 20, *)
(* swim speed 10, 22 L at 220 bar, no stages                                *)
TestStandingData(conservatism) ==
    [scr |-> 20, swimSpeed |-> 10, bottomGasType |-> "2x80",
     bottomGasFillPressure |-> 220, conservatism |-> Some(conservatism),
     stageStandingTime |-> Some(2), stages |-> <<>>,
     keys |-> << "scr", "swimSpeed", "bottomGasType", "bottomGasFillPressure",
                 "conservatism", "stageStandingTime", "stages" >>]

(* A section is held with the names of its properties in the order the      *)
(* object lists them (keys); stageId, wayBack and note are None when the    *)
(* property is missing or undefined.  A section shape is a section without  *)
(* its id.                                                                  *)
AddedKeys == << "id", "type", "avgDepth", "distance" >>
Swim(depth, distance) ==
    [type |-> "swim", avgDepth |-> depth, distance |-> distance, stageId |-> None,
     wayBack |-> None, note |-> None, keys |-> AddedKeys]
Marker(type) ==
    [type |-> type, avgDepth |-> 0, distance |-> 0, stageId |-> None,
     wayBack |-> None, note |-> None, keys |-> AddedKeys]
StageDrop(stageId) ==
    [type |-> "stage-drop", avgDepth |-> 0, distance |-> 0, stageId |-> Some(stageId),
     wayBack |-> None, note |-> None, keys |-> Append(AddedKeys, "stageId")]

PlanFamilies ==
    { \* no stages, 22 L at 60 bar: turn pressure 40 bar
      [sd |-> StandingData("2x80", 60, <<>>), prefix |-> <<>>,
       shapes |-> { Swim(10, 50), Swim(10, 100), Marker("turnaround"),
                    Marker("recalculation"), Marker("jump-left"), Marker("t-left") }],
      \* an empty primary tank: turn pressure 0
      [sd |-> StandingData("2x80", 0, <<>>), prefix |-> <<>>,
       shapes |-> { Swim(10, 50), Marker("turnaround"), Marker("recalculation") }],
      \* one stage (11 bar above its drop pressure), 22 L at 120 bar: turn pressure 80 bar
      [sd |-> StandingData("2x80", 120, << Stage("s1", 52, FALSE) >>), prefix |-> <<>>,
       shapes |-> { Swim(10, 50), Swim(10, 100), Marker("turnaround"),
                    Marker("recalculation"), StageDrop("s1"), Marker("jump-left") }],
      \* two stages, the first reserved in primary gas, 24 L at 60 bar: turn pressure 50 bar
      [sd |-> StandingData("d12", 60, << Stage("s1", 50, TRUE), Stage("s2", 70, FALSE) >>),
       prefix |-> <<>>,
       shapes |-> { Swim(10, 50), Swim(20, 100), Marker("turnaround"),
                    Marker("recalculation"), StageDrop("s1"), StageDrop("s2") }],
      \* the plans of the repository's tests: 100 m in, turnaround, 100 m or
      \* 50 m back, then a recalculation and a side passage
      [sd |-> TestStandingData(0),
       prefix |-> << Swim(10, 100), Marker("turnaround"), Swim(10, 100) >>,
       shapes |-> { Swim(10, 50), Marker("turnaround"), Marker("recalculation") }],
      [sd |-> TestStandingData(0),
       prefix |-> << Swim(10, 100), Marker("turnaround"), Swim(10, 50) >>,
       shapes |-> { Swim(10, 50), Marker("turnaround"), Marker("recalculation") }],
      \* the same configuration with a conservatism of 10 bar
      [sd |-> TestStandingData(10), prefix |-> <<>>,
       shapes |-> { Swim(10, 100), Swim(10, 300), Marker("turnaround"),
                    Marker("recalculation") }],
      \* a stage dropped at a marker and picked up on the way back
      [sd |-> StandingData("2x80", 120, << Stage("s1", 52, FALSE) >>),
       prefix |-> << StageDrop("s1"), Marker("turnaround"), StageDrop("s1") >>,
       shapes |-> { Swim(10, 50), Swim(10, 100), Marker("turnaround"),
                    Marker("recalculation") }],
      \* stage-drop sections without a stageId or with one that names no
      \* configured stage
      [sd |-> StandingData("2x80", 120, << Stage("s1", 52, FALSE) >>), prefix |-> <<>>,
       shapes |-> { Swim(10, 50), StageDrop("zz"), Marker("stage-drop"), StageDrop("s1"),
                    Marker("turnaround") }],
      \* a swim speed of 0 and a negative one: swims take no time
      [sd |-> [StandingData("2x80", 60, <<>>) EXCEPT !.swimSpeed = 0], prefix |-> <<>>,
       shapes |-> { Swim(10, 50), Swim(20, 50), Marker("jump-right"), Marker("t-right"),
                    Marker("stage-drop") }],
      [sd |-> [StandingData("2x80", 60, <<>>) EXCEPT !.swimSpeed = 0 - 10], prefix |-> <<>>,
       shapes |-> { Swim(20, 100), Marker("jump-right"), Marker("turnaround") }],
      \* degenerate configurations with a stage: swim speed 0, consumption rate 0
      [sd |-> [StandingData("2x80", 60, << Stage("s1", 52, FALSE) >>) EXCEPT !.swimSpeed = 0],
       prefix |-> <<>>,
       shapes |-> { Swim(10, 50), Marker("jump-left"), StageDrop("s1"),
                    Marker("turnaround") }],
      [sd |-> [StandingData("2x80", 60, << Stage("s1", 52, FALSE) >>) EXCEPT !.scr = 0],
       prefix |-> <<>>,
       shapes |-> { Swim(10, 50), Marker("jump-left"), StageDrop("s1"),
                    Marker("turnaround"), Marker("recalculation") }],
      \* a stage filled below 30 bar (drop pressure 25 bar) and reserved in
      \* primary gas, 22 L at 61 bar
      [sd |-> StandingData("2x80", 61, << Stage("s1", 20, TRUE) >>), prefix |-> <<>>,
       shapes |-> { Swim(10, 50), StageDrop("s1"), Marker("turnaround") }],
      \* a stage whose id is the empty string, a stage-drop section without a
      \* stageId and one whose stageId is the empty string
      [sd |-> StandingData("2x80", 120, << Stage("", 52, FALSE) >>), prefix |-> <<>>,
       shapes |-> { Swim(10, 50), Marker("stage-drop"), StageDrop("") }],
      \* a swim of 150 m: the stage gives 121 of its 660 L, the exact split
      \* point is 27.5 m and the doubles give 27.499999999999996
      [sd |-> StandingData("2x80", 120, << Stage("s1", 52, FALSE) >>), prefix |-> <<>>,
       shapes |-> { Swim(10, 150), Marker("turnaround") }],
      \* an Alu40 stage (5.5 L) at 70 bar, reserved in primary gas: 110 L
      \* above its drop pressure of 50 bar
      [sd |-> StandingData("2x80", 120, << Alu40Stage("s1", 70, TRUE) >>), prefix |-> <<>>,
       shapes |-> { Swim(10, 50), StageDrop("s1"), Marker("turnaround"),
                    Marker("recalculation") }],
      \* the configuration the editor starts with: rate 20, 15 m/min, no
      \* conservatism and no standing time entered
      [sd |-> DefaultStandingData, prefix |-> <<>>,
       shapes |-> { Swim(10, 150), Marker("stage-drop"), Marker("turnaround") }] }

WithId(shape, i) ==
    [id |-> i, type |-> shape.type, avgDepth |-> shape.avgDepth,
     distance |-> shape.distance, stageId |-> shape.stageId,
     wayBack |-> shape.wayBack, note |-> shape.note, keys |-> shape.keys]

(* the section lists of a family: its prefix followed by at most MaxSections *)
(* sections over its shapes; the id of a section is its position             *)
SectionLists(prefix, shapes) ==
    UNION { { [i \in 1..(Len(prefix) + n) |-> WithId((prefix \o sh)[i], i)] :
                sh \in [1..n -> shapes] } :
            n \in 0..MaxSections }

(* storage.ts (src/unnamed/part_001), lines 3-4 *)
STANDING_DATA_KEY == "cave-planner-standing-data"
SECTIONS_KEY == "cave-planner-sections"
StorageKeys == {STANDING_DATA_KEY, SECTIONS_KEY}

----------------------------------------------------------------------------
(* the state calculateDive starts from (lines 43-108) *)
InitFrom(families) ==
    /\ \E family \in families :
          /\ standingData = family.sd
          /\ sections \in SectionLists(family.prefix, family.shapes)
    /\ pc = "first"
    /\ si = 1
    /\ stageStates = InitialStageStates(standingData)
    /\ remainingBackGasLiters = totalBackGas(standingData)
    /\ backGasUsedTotal = 0
    /\ runningTime = 0
    /\ timeDepthProduct = 0
    /\ currentDepth = 0
    /\ isWayBack = FALSE
    /\ results = <<>>
    /\ pendingDropInserts = <<>>
    /\ totalBackGasUsedAtEnd = 0
    /\ activeRecalcTurnPressure = None
    /\ fixed = None
    /\ returned = None
    /\ localStorage = [key \in StorageKeys |-> None]
    /\ saved = [key \in StorageKeys |-> None]
    /\ loaded = [key \in StorageKeys |-> None]
    /\ edits = 0
    /\ effectRuns = 0
    /\ dragIndex = None

Init == InitFrom(PlanFamilies)

(* lines 110-270 *)
FirstPass ==
    /\ pc = "first"
    /\ si <= Len(sections)
    /\ \E s \in {SimulateSection(standingData, explicitDropStageIds(sections), sections[si],
                  [stageStates |-> stageStates,
                   remainingBackGasLiters |-> remainingBackGasLiters,
                   backGasUsedTotal |-> backGasUsedTotal,
                   runningTime |-> runningTime,
                   timeDepthProduct |-> timeDepthProduct,
                   currentDepth |-> currentDepth,
                   isWayBack |-> isWayBack,
                   results |-> results,
                   pendingDropInserts |-> pendingDropInserts])} :
          /\ stageStates' = s.stageStates
          /\ remainingBackGasLiters' = s.remainingBackGasLiters
          /\ backGasUsedTotal' = s.backGasUsedTotal
          /\ runningTime' = s.runningTime
          /\ timeDepthProduct' = s.timeDepthProduct
          /\ currentDepth' = s.currentDepth
          /\ isWayBack' = s.isWayBack
          /\ results' = s.results
          /\ pendingDropInserts' = s.pendingDropInserts
    /\ si' = si + 1
    /\ UNCHANGED <<standingData, sections, pc, totalBackGasUsedAtEnd, activeRecalcTurnPressure,
                   fixed, returned,
                   localStorage, saved, loaded, edits, effectRuns, dragIndex>>

(* lines 273-279 *)
BeginSecondPass ==
    /\ pc = "first"
    /\ si > Len(sections)
    /\ totalBackGasUsedAtEnd' =
          IF Len(results) > 0 THEN results[Len(results)].backGasUsedTotal ELSE 0
    /\ activeRecalcTurnPressure' = None
    /\ si' = 1
    /\ pc' = "second"
    /\ UNCHANGED <<standingData, sections, stageStates, remainingBackGasLiters,
                   backGasUsedTotal, runningTime, timeDepthProduct, currentDepth,
                   isWayBack, results, pendingDropInserts, fixed, returned,
                   localStorage, saved, loaded, edits, effectRuns, dragIndex>>

(* mutant: the threshold of a recalculation is never cleared *)
SecondPass_NeverCleared ==
    /\ pc = "second"
    /\ si <= Len(sections)
    /\ LET section == sections[si]
           result == results[si]
       IN IF section.type = "recalculation"
          THEN LET r == Recalculate(standingData, result, totalBackGasUsedAtEnd)
               IN /\ results' = [results EXCEPT ![si].recalculation = Some(r)]
                  /\ activeRecalcTurnPressure' = Some(RecalcThreshold(result, r))
          ELSE IF IsSome(activeRecalcTurnPressure) /\ ~result.isWayBack
               THEN /\ results' = [results EXCEPT ![si].turnWarning =
                             RecalcTurnWarning(result, Get(activeRecalcTurnPressure))]
                    /\ UNCHANGED activeRecalcTurnPressure
               ELSE UNCHANGED <<results, activeRecalcTurnPressure>>
    /\ si' = si + 1
    /\ UNCHANGED <<standingData, sections, pc, stageStates, remainingBackGasLiters,
                   backGasUsedTotal, runningTime, timeDepthProduct, currentDepth,
                   isWayBack, pendingDropInserts, totalBackGasUsedAtEnd, fixed, returned,
                   localStorage, saved, loaded, edits, effectRuns, dragIndex>>

(* lines 281-401: one iteration of the second loop *)
SecondPass ==
    /\ pc = "second"
    /\ si <= Len(sections)
    /\ LET section == sections[si]
           result == results[si]
       IN IF section.type = "recalculation"
          THEN LET r == Recalculate(standingData, result, totalBackGasUsedAtEnd)
               IN /\ results' = [results EXCEPT ![si].recalculation = Some(r)]
                  /\ activeRecalcTurnPressure' = Some(RecalcThreshold(result, r))
          ELSE IF IsSome(activeRecalcTurnPressure)
               THEN IF ~result.isWayBack
                    THEN /\ results' = [results EXCEPT ![si].turnWarning =
                                  RecalcTurnWarning(result, Get(activeRecalcTurnPressure))]
                         /\ UNCHANGED activeRecalcTurnPressure
                    ELSE /\ activeRecalcTurnPressure' = None
                         /\ UNCHANGED results
               ELSE UNCHANGED <<results, activeRecalcTurnPressure>>
    /\ si' = si + 1
    /\ UNCHANGED <<standingData, sections, pc, stageStates, remainingBackGasLiters,
                   backGasUsedTotal, runningTime, timeDepthProduct, currentDepth,
                   isWayBack, pendingDropInserts, totalBackGasUsedAtEnd, fixed, returned,
                   localStorage, saved, loaded, edits, effectRuns, dragIndex>>

(* lines 403-412: the value returned to the caller *)
DiveCalculation ==
    [sections |-> results,
     totalBackGas |-> totalBackGas(standingData),
     stageReservation |-> stageReservation(standingData),
     effectiveBackGas |-> effectiveBackGas(standingData),
     usableBackGas |-> usableBackGas(standingData),
     usableBackGasRounded |-> usableBackGasRounded(standingData),
     bottomGasVolume |-> bottomGasVolume(standingData),
     pendingDropInserts |-> pendingDropInserts]

(* the return statement.  returned keeps the arguments and the value of the *)
(* first call that returned, and whether a call with other arguments has    *)
(* returned since                                                           *)
Return ==
    /\ pc = "second"
    /\ si > Len(sections)
    /\ pc' = "done"
    /\ returned' =
          IF ~IsSome(returned)
          THEN Some([standingData |-> standingData, sections |-> sections,
                     calculation |-> DiveCalculation, between |-> FALSE])
          ELSE IF Get(returned).standingData = standingData /\ Get(returned).sections = sections
               THEN returned
               ELSE Some([Get(returned) EXCEPT !.between = TRUE])
    /\ UNCHANGED <<standingData, sections, si, stageStates, remainingBackGasLiters,
                   backGasUsedTotal, runningTime, timeDepthProduct, currentDepth,
                   isWayBack, results, pendingDropInserts, totalBackGasUsedAtEnd,
                   activeRecalcTurnPressure, fixed, localStorage, saved, loaded,
                   edits, effectRuns, dragIndex>>

Next == FirstPass \/ BeginSecondPass \/ SecondPass \/ Return

Spec == Init /\ [][Next]_vars

----------------------------------------------------------------------------
(* storage.ts (src/unnamed/part_001).                                       *)
(* JavaScript values: every value is a record of the same shape, so that    *)
(* any two can be compared.  n holds a number or, for a boolean, 0 or 1;    *)
(* an array holds its elements in items; an object holds its property names *)
(* in keys and their values, in the same order, in items.                   *)
JsValue(t, n, s, keys, items) == [t |-> t, n |-> n, s |-> s, keys |-> keys, items |-> items]
JsUndefined == JsValue("undefined", 0, "", <<>>, <<>>)
JsNull == JsValue("null", 0, "", <<>>, <<>>)
JsBoolean(b) == JsValue("boolean", IF b THEN 1 ELSE 0, "", <<>>, <<>>)
JsNumber(n) == JsValue("number", n, "", <<>>, <<>>)
JsString(str) == JsValue("string", 0, str, <<>>, <<>>)
JsArray(items) == JsValue("array", 0, "", <<>>, items)
JsObject(keys, items) == JsValue("object", 0, "", keys, items)

(* A text is a sequence of tokens; the empty sequence is the empty string.  *)
(* "word" is a token no JSON text contains.                                 *)
Token(k, n, str) == [k |-> k, n |-> n, s |-> str]
Punct(k) == Token(k, 0, "")

RECURSIVE JoinWithCommas(_)
JoinWithCommas(texts) ==
    IF Len(texts) = 0 THEN <<>>
    ELSE IF Len(texts) = 1 THEN texts[1]
    ELSE texts[1] \o << Punct(",") >> \o JoinWithCommas(Tail(texts))

(* JSON.stringify.  SerializeJSONProperty is the text of one value, or None *)
(* where the value has no text (undefined): a property without a text is    *)
(* left out of its object, an array element without one is written as null. *)
(* JSON.stringify(undefined) is undefined, not a text.                      *)
RECURSIVE SerializeJSONProperty(_)
RECURSIVE StringifyMembers(_, _)
SerializeJSONProperty(v) ==
    CASE v.t = "number" -> Some(<< Token("number", v.n, "") >>)
      [] v.t = "string" -> Some(<< Token("string", 0, v.s) >>)
      [] v.t = "boolean" -> Some(<< Punct(IF v.n = 1 THEN "true" ELSE "false") >>)
      [] v.t = "null" -> Some(<< Punct("null") >>)
      [] v.t = "undefined" -> None
      [] v.t = "array" ->
            Some(<< Punct("[") >>
                   \o JoinWithCommas([k \in 1..Len(v.items) |->
                          IF v.items[k].t = "undefined" THEN << Punct("null") >>
                          ELSE Get(SerializeJSONProperty(v.items[k]))])
                   \o << Punct("]") >>)
      [] v.t = "object" ->
            Some(<< Punct("{") >> \o JoinWithCommas(StringifyMembers(v, 1))
                   \o << Punct("}") >>)

StringifyMembers(v, k) ==
    IF k > Len(v.keys) THEN <<>>
    ELSE IF v.items[k].t = "undefined" THEN StringifyMembers(v, k + 1)
    ELSE << << Token("string", 0, v.keys[k]), Punct(":") >>
               \o Get(SerializeJSONProperty(v.items[k])) >>
            \o StringifyMembers(v, k + 1)

JSONstringify(v) == SerializeJSONProperty(v)

(* JSON.parse: ok is FALSE where the source throws a SyntaxError; pos is    *)
(* the position after the value read                                        *)
SyntaxError == [ok |-> FALSE, v |-> JsUndefined, pos |-> 0]
Parsed(v, pos) == [ok |-> TRUE, v |-> v, pos |-> pos]
HasToken(text, pos, k) == pos <= Len(text) /\ text[pos].k = k

(* Property names that are array indices ("0", "1", "2", ..., written       *)
(* without a sign or leading zeros): an object lists them first, in numeric *)
(* order, and its other names after them in the order they were added.      *)
(* Names up to MaxArrayIndex are recognised.                                *)
MaxArrayIndex == 99
IsArrayIndex(name) == \E n \in 0..MaxArrayIndex : ToString(n) = name
ArrayIndex(name) == CHOOSE n \in 0..MaxArrayIndex : ToString(n) = name

(* key comes before the name other in the object's list of names *)
ListedBefore(key, other) ==
    IsArrayIndex(key) /\ (IsArrayIndex(other) => ArrayIndex(key) < ArrayIndex(other))

(* an object with property key set to value: a repeated name keeps its      *)
(* place and takes the later value; a new name is listed after the array    *)
(* indices below it, or, when it is no array index, last                    *)
WithProperty(keys, items, key, value) ==
    IF \E k \in 1..Len(keys) : keys[k] = key
    THEN [keys |-> keys,
          items |-> [k \in 1..Len(items) |-> IF keys[k] = key THEN value ELSE items[k]]]
    ELSE LET before == Cardinality({k \in 1..Len(keys) : ~ListedBefore(key, keys[k])})
         IN [keys |-> SubSeq(keys, 1, before) \o << key >>
                        \o SubSeq(keys, before + 1, Len(keys)),
             items |-> SubSeq(items, 1, before) \o << value >>
                        \o SubSeq(items, before + 1, Len(items))]

RECURSIVE ParseValue(_, _)
RECURSIVE ParseElements(_, _, _)
RECURSIVE ParseMembers(_, _, _)
ParseValue(text, pos) ==
    IF pos > Len(text) THEN SyntaxError
    ELSE LET tok == text[pos]
         IN CASE tok.k = "number" -> Parsed(JsNumber(tok.n), pos + 1)
              [] tok.k = "string" -> Parsed(JsString(tok.s), pos + 1)
              [] tok.k = "true" -> Parsed(JsBoolean(TRUE), pos + 1)
              [] tok.k = "false" -> Parsed(JsBoolean(FALSE), pos + 1)
              [] tok.k = "null" -> Parsed(JsNull, pos + 1)
              [] tok.k = "[" ->
                    IF HasToken(text, pos + 1, "]") THEN Parsed(JsArray(<<>>), pos + 2)
                    ELSE ParseElements(text, pos + 1, <<>>)
              [] tok.k = "{" ->
                    IF HasToken(text, pos + 1, "}") THEN Parsed(JsObject(<<>>, <<>>), pos + 2)
                    ELSE ParseMembers(text, pos + 1, [keys |-> <<>>, items |-> <<>>])
              [] OTHER -> SyntaxError

ParseElements(text, pos, acc) ==
    \* one element, then "," and more elements, or "]"
    LET r == ParseValue(text, pos)
    IN IF ~r.ok THEN SyntaxError
       ELSE IF HasToken(text, r.pos, ",") THEN ParseElements(text, r.pos + 1, Append(acc, r.v))
       ELSE IF HasToken(text, r.pos, "]") THEN Parsed(JsArray(Append(acc, r.v)), r.pos + 1)
       ELSE SyntaxError

ParseMembers(text, pos, acc) ==
    \* one "name": value, then "," and more members, or "}"
    IF ~(HasToken(text, pos, "string") /\ HasToken(text, pos + 1, ":")) THEN SyntaxError
    ELSE LET r == ParseValue(text, pos + 2)
             acc2 == WithProperty(acc.keys, acc.items, text[pos].s, r.v)
         IN IF ~r.ok THEN SyntaxError
            ELSE IF HasToken(text, r.pos, ",") THEN ParseMembers(text, r.pos + 1, acc2)
            ELSE IF HasToken(text, r.pos, "}")
                 THEN Parsed(JsObject(acc2.keys, acc2.items), r.pos + 1)
            ELSE SyntaxError

(* the whole text is one value *)
JSONparse(text) ==
    LET r == ParseValue(text, 1)
    IN IF r.ok /\ r.pos = Len(text) + 1 THEN r ELSE SyntaxError

(* the outcome of a call: threw, or the value returned *)
Returned(v) == [threw |-> FALSE, value |-> v]
Threw == [threw |-> TRUE, value |-> JsUndefined]

(* mutant: no try/catch around JSON.parse *)
loadKey_NoCatch(storage, key) ==
    LET raw == storage[key]
    IN IF ~IsSome(raw) \/ Get(raw) = <<>> THEN Returned(JsNull)
       ELSE IF JSONparse(Get(raw)).ok THEN Returned(JSONparse(Get(raw)).v)
       ELSE Threw

(* lines 6-14 and 20-28: localStorage.getItem gives None (null) for an      *)
(* absent key; !raw holds for null and for the empty string; the catch      *)
(* turns a SyntaxError into null                                            *)
loadKey(storage, key) ==
    LET raw == storage[key]
    IN IF ~IsSome(raw) \/ Get(raw) = <<>> THEN Returned(JsNull)
       ELSE IF JSONparse(Get(raw)).ok THEN Returned(JSONparse(Get(raw)).v)
       ELSE Returned(JsNull)

loadStandingData(storage) == loadKey(storage, STANDING_DATA_KEY)
loadSections(storage) == loadKey(storage, SECTIONS_KEY)

(* localStorage.setItem(key, value) stores the value as a string: the text, *)
(* or the word undefined for a value without one                            *)
setItem(storage, key, value) ==
    [storage EXCEPT ![key] = IF IsSome(value) THEN value ELSE Some(<< Punct("undefined") >>)]

(* lines 16-18 and 30-32 *)
saveStandingData(storage, data) == setItem(storage, STANDING_DATA_KEY, JSONstringify(data))
saveSections(storage, secs) == setItem(storage, SECTIONS_KEY, JSONstringify(secs))

(* The values of the model as the JavaScript values the editor holds: an    *)
(* object lists its properties in the order of keys, and a property that    *)
(* is undefined has the value undefined (JSON.stringify leaves it out).     *)
StringOrUndefined(o) == IF IsSome(o) THEN JsString(Get(o)) ELSE JsUndefined
NumberOrUndefined(o) == IF IsSome(o) THEN JsNumber(Get(o)) ELSE JsUndefined
BooleanOrUndefined(o) == IF IsSome(o) THEN JsBoolean(Get(o)) ELSE JsUndefined

SectionProperty(section, name) ==
    CASE name = "id" -> JsNumber(section.id)
      [] name = "type" -> JsString(section.type)
      [] name = "avgDepth" -> JsNumber(section.avgDepth)
      [] name = "distance" -> JsNumber(section.distance)
      [] name = "stageId" -> StringOrUndefined(section.stageId)
      [] name = "wayBack" -> BooleanOrUndefined(section.wayBack)
      [] name = "note" -> StringOrUndefined(section.note)
SectionValue(section) ==
    JsObject(section.keys,
             [k \in 1..Len(section.keys) |-> SectionProperty(section, section.keys[k])])
SectionsValue(secs) == JsArray([k \in 1..Len(secs) |-> SectionValue(secs[k])])

StageValue(stage) ==
    JsObject(<< "id", "tankType", "fillPressure", "reserveInBackGas" >>,
             << JsString(stage.id), JsString(stage.tankType), JsNumber(stage.fillPressure),
                JsBoolean(stage.reserveInBackGas) >>)
StandingDataProperty(sd, name) ==
    CASE name = "scr" -> JsNumber(sd.scr)
      [] name = "swimSpeed" -> JsNumber(sd.swimSpeed)
      [] name = "bottomGasType" -> JsString(sd.bottomGasType)
      [] name = "bottomGasFillPressure" -> JsNumber(sd.bottomGasFillPressure)
      [] name = "conservatism" -> NumberOrUndefined(sd.conservatism)
      [] name = "stageStandingTime" -> NumberOrUndefined(sd.stageStandingTime)
      [] name = "stages" -> JsArray([k \in 1..Len(sd.stages) |-> StageValue(sd.stages[k])])
StandingDataValue(sd) ==
    JsObject(sd.keys, [k \in 1..Len(sd.keys) |-> StandingDataProperty(sd, sd.keys[k])])

(* obj[name]: undefined when the object has no such property *)
Property(v, name) ==
    IF \E k \in 1..Len(v.keys) : v.keys[k] = name
    THEN v.items[CHOOSE k \in 1..Len(v.keys) : v.keys[k] = name]
    ELSE JsUndefined

(* The JavaScript values JSON.parse gives for the texts the save functions  *)
(* wrote, as the values of the model.                                       *)
OptionalString(v) == IF v.t = "string" THEN Some(v.s) ELSE None
OptionalNumber(v) == IF v.t = "number" THEN Some(v.n) ELSE None
OptionalBoolean(v) == IF v.t = "boolean" THEN Some(v.n = 1) ELSE None

SectionOf(v) ==
    [id |-> Property(v, "id").n, type |-> Property(v, "type").s,
     avgDepth |-> Property(v, "avgDepth").n, distance |-> Property(v, "distance").n,
     stageId |-> OptionalString(Property(v, "stageId")),
     wayBack |-> OptionalBoolean(Property(v, "wayBack")),
     note |-> OptionalString(Property(v, "note")),
     keys |-> v.keys]
SectionsOf(v) == [k \in 1..Len(v.items) |-> SectionOf(v.items[k])]

StageOf(v) ==
    [id |-> Property(v, "id").s, tankType |-> Property(v, "tankType").s,
     fillPressure |-> Property(v, "fillPressure").n,
     reserveInBackGas |-> Property(v, "reserveInBackGas").n = 1]
StandingDataOf(v) ==
    [scr |-> Property(v, "scr").n, swimSpeed |-> Property(v, "swimSpeed").n,
     bottomGasType |-> Property(v, "bottomGasType").s,
     bottomGasFillPressure |-> Property(v, "bottomGasFillPressure").n,
     conservatism |-> OptionalNumber(Property(v, "conservatism")),
     stageStandingTime |-> OptionalNumber(Property(v, "stageStandingTime")),
     stages |-> [k \in 1..Len(Property(v, "stages").items) |->
                    StageOf(Property(v, "stages").items[k])],
     keys |-> v.keys]

(* App.svelte lines 27-29: the effect that saves the configuration runs in  *)
(* the flush after standingData is assigned                                 *)
StandingDataSaved(sd) ==
    \E data \in {StandingDataValue(sd)} :
        /\ localStorage' = saveStandingData(localStorage, data)
        /\ saved' = [saved EXCEPT ![STANDING_DATA_KEY] = Some(data)]

(* App.svelte lines 31-33: the effect that saves the section list runs in   *)
(* the flush after sections is assigned                                     *)
SectionsSaved(secs) ==
    \E list \in {SectionsValue(secs)} :
        /\ localStorage' = saveSections(localStorage, list)
        /\ saved' = [saved EXCEPT ![SECTIONS_KEY] = Some(list)]

(* App.svelte lines 27-33: both effects run when the editor is mounted *)
BothSaved(sd, secs) ==
    \E data \in {StandingDataValue(sd)} : \E list \in {SectionsValue(secs)} :
        /\ localStorage' = saveSections(saveStandingData(localStorage, data), list)
        /\ saved' = [key \in StorageKeys |->
                        IF key = STANDING_DATA_KEY THEN Some(data) ELSE Some(list)]

----------------------------------------------------------------------------
(* The editor (src/src/App.svelte).  The calculation is derived from the    *)
(* configuration and the section list (line 24): after an assignment to one *)
(* of them calculateDive runs again from its set-up code, and the effects   *)
(* that depend on what was assigned run in the same flush, before the       *)
(* editor takes the next input.                                             *)

(* gasCalculations.ts lines 43-108: the next call of calculateDive starts   *)
(* from its set-up code, whatever the call before left                      *)
SetUp(sd) ==
    /\ pc' = "first"
    /\ si' = 1
    /\ stageStates' = InitialStageStates(sd)
    /\ remainingBackGasLiters' = totalBackGas(sd)
    /\ backGasUsedTotal' = 0
    /\ runningTime' = 0
    /\ timeDepthProduct' = 0
    /\ currentDepth' = 0
    /\ isWayBack' = FALSE
    /\ results' = <<>>
    /\ pendingDropInserts' = <<>>
    /\ totalBackGasUsedAtEnd' = 0
    /\ activeRecalcTurnPressure' = None

(* sections = secs: the calculation runs again and the list is saved *)
SectionsAssigned(secs) ==
    /\ sections' = secs
    /\ SetUp(standingData)
    /\ SectionsSaved(secs)
    /\ fixed' = None
    /\ UNCHANGED <<standingData, returned, loaded>>

(* standingData = sd: the calculation runs again and the configuration is   *)
(* saved                                                                    *)
StandingDataAssigned(sd) ==
    /\ standingData' = sd
    /\ SetUp(sd)
    /\ StandingDataSaved(sd)
    /\ fixed' = None
    /\ UNCHANGED <<sections, returned, loaded>>

(* types.ts, generateId: a random string.  Ids are only compared for        *)
(* equality; the model draws the least number that no section of the list   *)
(* and no id in taken carries (a collision of two random ids is left out).  *)
generateId(secs, taken) ==
    CHOOSE n \in 1..(Len(secs) + Cardinality(taken) + 1) :
        /\ n \notin taken
        /\ \A k \in 1..Len(secs) : secs[k].id # n
        /\ \A m \in 1..(n - 1) : m \in taken \/ \E k \in 1..Len(secs) : secs[k].id = m

(* updated.findIndex((s) => s.id === id): first match, 0 if none *)
findIndex(secs, id) ==
    IF \E k \in 1..Len(secs) : secs[k].id = id
    THEN CHOOSE k \in 1..Len(secs) :
            /\ secs[k].id = id
            /\ \A j \in 1..(k - 1) : secs[j].id # id
    ELSE 0

(* updated.splice(idx + 1, 0, ...items), idx 1-based here *)
splice(secs, idx, items) ==
    SubSeq(secs, 1, idx) \o items \o SubSeq(secs, idx + 1, Len(secs))

(* mutant: the marker is put at the end of the list *)
autoInsert_AtEnd(secs, inserts) ==
    IF Len(inserts) = 0 THEN secs
    ELSE
    LET insert == inserts[1]
        idx == findIndex(secs, insert.afterSectionId)
    IN
    IF idx = 0 THEN secs
    ELSE
    LET target == secs[idx]
        dropId == generateId(secs, {})
        dropSection == [id |-> dropId, type |-> "stage-drop", avgDepth |-> 0,
                        distance |-> 0, stageId |-> Some(insert.stageId),
                        wayBack |-> None, note |-> None,
                        keys |-> Append(AddedKeys, "stageId")]
    IN
    IF /\ IsSome(insert.splitAtDistance)
       /\ Get(insert.splitAtDistance) > 0
       /\ Get(insert.splitAtDistance) < target.distance
       /\ target.type = "swim"
    THEN LET remainder == [id |-> generateId(secs, {dropId}), type |-> "swim",
                           avgDepth |-> target.avgDepth,
                           distance |-> target.distance - Get(insert.splitAtDistance),
                           stageId |-> None, wayBack |-> target.wayBack, note |-> None,
                           keys |-> Append(AddedKeys, "wayBack")]
         IN splice([secs EXCEPT ![idx].distance = Get(insert.splitAtDistance)],
                   Len(secs), << dropSection, remainder >>)
    ELSE splice(secs, Len(secs), << dropSection >>)

(* App.svelte lines 38-77: the section list the effect assigns, or the list *)
(* as it is when the effect returns early                                   *)
autoInsert(secs, inserts) ==
    IF Len(inserts) = 0 THEN secs
    ELSE
    LET insert == inserts[1]
        idx == findIndex(secs, insert.afterSectionId)
    IN
    IF idx = 0 THEN secs
    ELSE
    LET target == secs[idx]
        dropId == generateId(secs, {})
        dropSection == [id |-> dropId, type |-> "stage-drop", avgDepth |-> 0,
                        distance |-> 0, stageId |-> Some(insert.stageId),
                        wayBack |-> None, note |-> None,
                        keys |-> Append(AddedKeys, "stageId")]
    IN
    IF /\ IsSome(insert.splitAtDistance)
       /\ Get(insert.splitAtDistance) > 0
       /\ Get(insert.splitAtDistance) < target.distance
       /\ target.type = "swim"
    THEN \* split the swim: shorten original, insert drop + remainder
         LET remainder == [id |-> generateId(secs, {dropId}), type |-> "swim",
                           avgDepth |-> target.avgDepth,
                           distance |-> target.distance - Get(insert.splitAtDistance),
                           stageId |-> None, wayBack |-> target.wayBack, note |-> None,
                           keys |-> Append(AddedKeys, "wayBack")]
         IN splice([secs EXCEPT ![idx].distance = Get(insert.splitAtDistance)],
                   idx, << dropSection, remainder >>)
    ELSE splice(secs, idx, << dropSection >>)

(* the auto-insert effect has an advisory to act on: it runs before the     *)
(* editor takes an input                                                    *)
EffectDue == pc = "done" /\ autoInsert(sections, pendingDropInserts) # sections

(* the calculation has returned and no effect is left to run *)
AtRest == pc = "done" /\ ~EffectDue

(* App.svelte lines 38-77: one run of the effect after a calculation that   *)
(* reports advisories.  The assignment to sections makes the calculation    *)
(* run again on the new list, and the effect of lines 31-33 saves it.  The  *)
(* effect runs as often as the calculation reports an advisory it can act   *)
(* on; effectRuns counts its runs since the last input.                     *)
AutoInsertEffect ==
    /\ pc = "done"
    /\ \E updated \in {autoInsert(sections, pendingDropInserts)} :
          /\ updated # sections
          /\ SectionsAssigned(updated)
    /\ effectRuns' = effectRuns + 1
    /\ UNCHANGED <<edits, dragIndex>>

----------------------------------------------------------------------------
(* The editor's section list (src/src/lib/SectionList.svelte).              *)

(* Plans the arithmetic of the model covers (see Numbers above): depths     *)
(* that are multiples of 10 m and swims that take whole minutes; with       *)
(* stages, whose gas is counted in bars, a consumption rate that is a       *)
(* multiple of 11, a swim speed of at most 1 m/min, so that the parts of a  *)
(* split swim take whole minutes too, and fill pressures whose drop         *)
(* pressure and litres above it are whole.  A plan without sections uses no *)
(* gas.                                                                     *)
Computable(sd, secs) ==
    /\ \A k \in 1..Len(secs) :
          /\ secs[k].avgDepth % 10 = 0
          /\ (secs[k].type = "swim" /\ sd.swimSpeed > 0)
                => secs[k].distance % sd.swimSpeed = 0
    /\ (Len(sd.stages) > 0 /\ Len(secs) > 0) =>
          /\ sd.scr % 11 = 0
          /\ sd.swimSpeed <= 1
          /\ \A k \in 1..Len(sd.stages) :
                /\ sd.stages[k].fillPressure % 2 = 0
                /\ sd.stages[k].tankType = "alu40"
                      => (sd.stages[k].fillPressure \div 2 - 15) % 2 = 0

(* the most edits by hand a session is followed for *)
MaxEdits == 2

(* the editor takes an input: no effect is left to run and no card is being *)
(* dragged (the browser delivers no other input during a drag)              *)
CanEdit == AtRest /\ dragIndex = None /\ edits < MaxEdits

(* an edit of the section list *)
SectionsEdited(secs) ==
    /\ Computable(standingData, secs)
    /\ SectionsAssigned(secs)
    /\ edits' = edits + 1
    /\ effectRuns' = 0
    /\ UNCHANGED dragIndex

(* the properties an object may lack *)
OptionalProperties == {"stageId", "wayBack", "note", "conservatism", "stageStandingTime"}

(* { ...obj, [field]: value }: a property the object has keeps its place, a *)
(* new one is listed last                                                   *)
Spread(obj, field, value) ==
    [obj EXCEPT ![field] = IF field \in OptionalProperties THEN Some(value) ELSE value,
                !.keys = IF Includes(obj.keys, field) THEN obj.keys
                         ELSE Append(obj.keys, field)]

(* lines 23-31 *)
addSection(secs, type) ==
    Append(secs, [id |-> generateId(secs, {}), type |-> type,
                  avgDepth |-> IF type = "swim" THEN 20 ELSE 0,
                  distance |-> IF type = "swim" THEN 100 ELSE 0,
                  stageId |-> None, wayBack |-> None, note |-> None,
                  keys |-> AddedKeys])

(* lines 33-35 *)
removeSection(secs, id) ==
    LET Other(s) == s.id # id IN SelectSeq(secs, Other)

(* lines 41-45 *)
updateSection(secs, id, field, value) ==
    [k \in 1..Len(secs) |-> IF secs[k].id = id THEN Spread(secs[k], field, value) ELSE secs[k]]

(* lines 70-73 of handleDrop: the card at dragged is taken out and put back *)
(* at index                                                                 *)
moveSection(secs, dragged, index) ==
    LET updated == SubSeq(secs, 1, dragged - 1) \o SubSeq(secs, dragged + 1, Len(secs))
    IN SubSeq(updated, 1, index - 1) \o << secs[dragged] >>
           \o SubSeq(updated, index, Len(updated))

(* n ids, drawn one after the other *)
RECURSIVE FreshIds(_, _, _)
FreshIds(secs, n, taken) ==
    IF n = 0 THEN <<>>
    ELSE LET id == generateId(secs, taken)
         IN << id >> \o FreshIds(secs, n - 1, taken \cup {id})

(* lines 190-200 *)
addReturnSections(secs) ==
    LET n == Len(secs)
        ids == FreshIds(secs, n, {})
        reversed == [k \in 1..n |->
                        [id |-> ids[k], type |-> secs[n + 1 - k].type,
                         avgDepth |-> secs[n + 1 - k].avgDepth,
                         distance |-> secs[n + 1 - k].distance,
                         stageId |-> secs[n + 1 - k].stageId,
                         wayBack |-> Some(TRUE), note |-> None,
                         keys |-> AddedKeys \o << "stageId", "wayBack" >>]]
    IN secs \o reversed

(* the buttons of lines 207-212 *)
ButtonTypes == {"swim", "t-left", "t-right", "jump-left", "jump-right", "stage-drop"}

(* the options of the type select (SECTION_TYPE_LABELS, types.ts) *)
SectionTypes == ButtonTypes \cup {"turnaround", "recalculation"}

(* what is typed into the depth, distance and note inputs *)
DepthsEntered == {10, 40}
DistancesEntered == {0, 3}
NotesEntered == {"", "silt"}

(* a click on one of the add buttons *)
AddSection ==
    /\ CanEdit
    /\ \E type \in ButtonTypes : SectionsEdited(addSection(sections, type))

(* a click on the remove button of a card (line 289) *)
RemoveSection ==
    /\ CanEdit
    /\ \E i \in 1..Len(sections) : SectionsEdited(removeSection(sections, sections[i].id))

(* a click on Clear All, which is there while the list has sections (lines  *)
(* 37-39 and 221-223)                                                       *)
ClearAll ==
    /\ CanEdit
    /\ Len(sections) > 0
    /\ SectionsEdited(<<>>)

(* the type select of a card (lines 248-258): the type is updated, and the  *)
(* depth and the distance are set to 0 for a type other than swim           *)
ChangeType ==
    /\ CanEdit
    /\ \E i \in 1..Len(sections) : \E newType \in SectionTypes :
          LET id == sections[i].id
              typed == updateSection(sections, id, "type", newType)
          IN SectionsEdited(IF newType # "swim"
                            THEN updateSection(updateSection(typed, id, "avgDepth", 0),
                                               id, "distance", 0)
                            ELSE typed)

(* the stage select of a stage-drop card (lines 263-275); its options are   *)
(* the configured stages                                                    *)
ChangeStage ==
    /\ CanEdit
    /\ \E i \in 1..Len(sections) : \E k \in 1..Len(standingData.stages) :
          /\ sections[i].type = "stage-drop"
          /\ SectionsEdited(updateSection(sections, sections[i].id, "stageId",
                                          standingData.stages[k].id))

(* the Way back checkbox of a card (lines 280-288) *)
ChangeWayBack ==
    /\ CanEdit
    /\ \E i \in 1..Len(sections) :
          SectionsEdited(updateSection(sections, sections[i].id, "wayBack",
                                       ~OrElse(sections[i].wayBack, FALSE)))

(* the depth input of a swim card (lines 298-305) *)
ChangeDepth ==
    /\ CanEdit
    /\ \E i \in 1..Len(sections) : \E depth \in DepthsEntered :
          /\ sections[i].type = "swim"
          /\ SectionsEdited(updateSection(sections, sections[i].id, "avgDepth", depth))

(* the distance input of a swim card (lines 311-318) *)
ChangeDistance ==
    /\ CanEdit
    /\ \E i \in 1..Len(sections) : \E distance \in DistancesEntered :
          /\ sections[i].type = "swim"
          /\ SectionsEdited(updateSection(sections, sections[i].id, "distance", distance))

(* the note input of a card (lines 386-393) *)
ChangeNote ==
    /\ CanEdit
    /\ \E i \in 1..Len(sections) : \E note \in NotesEntered :
          SectionsEdited(updateSection(sections, sections[i].id, "note", note))

(* a click on "Add the sections on the way back" (lines 401-403) *)
AddReturnSections ==
    /\ CanEdit
    /\ Len(sections) > 0
    /\ SectionsEdited(addReturnSections(sections))

(* lines 47-52: a card is picked up *)
HandleDragStart ==
    /\ AtRest
    /\ dragIndex = None
    /\ edits < MaxEdits
    /\ \E index \in 1..Len(sections) : dragIndex' = Some(index)
    /\ UNCHANGED <<standingData, sections, pc, si, stageStates, remainingBackGasLiters,
                   backGasUsedTotal, runningTime, timeDepthProduct, currentDepth,
                   isWayBack, results, pendingDropInserts, totalBackGasUsedAtEnd,
                   activeRecalcTurnPressure, fixed, returned, localStorage, saved, loaded,
                   edits, effectRuns>>

(* lines 62-77: the card is dropped on a card.  Dropped on itself it stays  *)
(* where it is and nothing is assigned.                                     *)
HandleDrop ==
    /\ IsSome(dragIndex)
    /\ \E index \in 1..Len(sections) :
          IF Get(dragIndex) = index
          THEN UNCHANGED <<standingData, sections, pc, si, stageStates,
                           remainingBackGasLiters, backGasUsedTotal, runningTime,
                           timeDepthProduct, currentDepth, isWayBack, results,
                           pendingDropInserts, totalBackGasUsedAtEnd,
                           activeRecalcTurnPressure, fixed, returned, localStorage, saved,
                           loaded, edits, effectRuns>>
          ELSE /\ SectionsAssigned(moveSection(sections, Get(dragIndex), index))
               /\ edits' = edits + 1
               /\ effectRuns' = 0
    /\ dragIndex' = None

(* lines 79-82: the drag ends somewhere else *)
HandleDragEnd ==
    /\ IsSome(dragIndex)
    /\ dragIndex' = None
    /\ UNCHANGED <<standingData, sections, pc, si, stageStates, remainingBackGasLiters,
                   backGasUsedTotal, runningTime, timeDepthProduct, currentDepth,
                   isWayBack, results, pendingDropInserts, totalBackGasUsedAtEnd,
                   activeRecalcTurnPressure, fixed, returned, localStorage, saved, loaded,
                   edits, effectRuns>>

----------------------------------------------------------------------------
(* The editor's Fix button (src/src/lib/SectionList.svelte).                *)

(* mutant: the section type is not looked at *)
fixDistance_AnyType(secs, res, usable, sectionIndex) ==
    LET section == secs[sectionIndex]
        result == res[sectionIndex]
        prevBackGasUsed == IF sectionIndex > 1 /\ sectionIndex - 1 <= Len(res)
                           THEN res[sectionIndex - 1].backGasUsedTotal ELSE 0
        backGasUsedInSection == result.backGasUsedTotal - prevBackGasUsed
        availableBackGas == Rat(usable.num - prevBackGasUsed * usable.den, usable.den)
    IN IF sectionIndex > Len(res) THEN None
       ELSE IF ~RatPos(availableBackGas) THEN Some(0)
       ELSE IF backGasUsedInSection <= 0 THEN None
       ELSE Some((section.distance * availableBackGas.num)
                    \div (availableBackGas.den * backGasUsedInSection))

(* lines 173-188: the distance fixDistance writes into the section, or None *)
(* when it returns without an update.  usable is the usableBackGas property *)
(* of the component, which App.svelte (line 148) binds to                   *)
(* calculation.usableBackGasRounded.                                        *)
fixDistance(secs, res, usable, sectionIndex) ==
    LET section == secs[sectionIndex]
        result == res[sectionIndex]
        \* results[sectionIndex - 1]?.backGasUsedTotal ?? 0
        prevBackGasUsed == IF sectionIndex > 1 /\ sectionIndex - 1 <= Len(res)
                           THEN res[sectionIndex - 1].backGasUsedTotal ELSE 0
        backGasUsedInSection == result.backGasUsedTotal - prevBackGasUsed
        availableBackGas == Rat(usable.num - prevBackGasUsed * usable.den, usable.den)
    IN IF section.type # "swim" \/ section.distance = 0 THEN None
       ELSE IF sectionIndex > Len(res) THEN None      \* if (!result) return
       ELSE IF ~RatPos(availableBackGas) THEN Some(0)
       ELSE IF backGasUsedInSection <= 0 THEN None
       ELSE \* Math.floor(section.distance * availableBackGas / backGasUsedInSection)
            Some((section.distance * availableBackGas.num)
                    \div (availableBackGas.den * backGasUsedInSection))

(* lines 84-86: results.find((r) => r.sectionId === sectionId) *)
getResult(res, sectionId) ==
    IF \E k \in 1..Len(res) : res[k].sectionId = sectionId
    THEN Some(res[CHOOSE k \in 1..Len(res) :
                    /\ res[k].sectionId = sectionId
                    /\ \A j \in 1..(k - 1) : res[j].sectionId # sectionId])
    ELSE None

(* A click on Fix.  The button is rendered on a swim card whose result has  *)
(* turnWarning (lines 229 and 360-362).  When fixDistance updates the       *)
(* section list, the calculation runs again on the new list and the list is *)
(* saved.                                                                   *)
FixDistance ==
    /\ AtRest
    /\ dragIndex = None
    /\ \E i \in 1..Len(sections) :
          /\ IsSome(getResult(results, sections[i].id))
          /\ Get(getResult(results, sections[i].id)).turnWarning
          /\ sections[i].type = "swim"
          /\ \E d \in {fixDistance(sections, results, usableBackGasRounded(standingData), i)} :
                IF IsSome(d)
                THEN /\ sections' = updateSection(sections, sections[i].id, "distance", Get(d))
                     /\ SetUp(standingData)
                     /\ SectionsSaved(sections')
                     /\ fixed' = Some([sectionIndex |-> i, distance |-> d])
                     /\ effectRuns' = 0
                ELSE /\ fixed' = Some([sectionIndex |-> i, distance |-> d])
                     /\ UNCHANGED <<sections, pc, si, stageStates, remainingBackGasLiters,
                                    backGasUsedTotal, runningTime, timeDepthProduct,
                                    currentDepth, isWayBack, results, pendingDropInserts,
                                    totalBackGasUsedAtEnd, activeRecalcTurnPressure,
                                    localStorage, saved, effectRuns>>
    /\ UNCHANGED <<standingData, returned, loaded, edits, dragIndex>>

----------------------------------------------------------------------------
(* The editor's configuration form (StandingData.svelte; the revision that  *)
(* goes with types.ts and gasCalculations.ts is kept in src/src/lib/types.ts *)
(* from line 130 on, and the line numbers below are those of that file).    *)

(* an edit of the configuration *)
StandingDataEdited(sd) ==
    /\ Computable(sd, sections)
    /\ StandingDataAssigned(sd)
    /\ edits' = edits + 1
    /\ effectRuns' = 0
    /\ UNCHANGED dragIndex

(* generateId (lines 126-128) draws a random string: an id that no stage    *)
(* carries or has carried and that no section names.  The strings are taken *)
(* from StageIdPool, one for each input of the session, so that the id      *)
(* drawn by the input after `drawn` inputs is one that was never drawn      *)
(* before, also when a stage has been removed since.                        *)
StageIdPool == << "r1", "r2", "r3", "r4", "r5", "r6" >>
generateStageId(drawn) == StageIdPool[drawn + 1]

(* lines 141-149 *)
addStage(sd, id) ==
    Spread(sd, "stages",
           Append(sd.stages, [id |-> id, tankType |-> "alu80",
                              fillPressure |-> 210, reserveInBackGas |-> TRUE]))

(* lines 151-153 *)
removeStage(sd, id) ==
    LET Other(s) == s.id # id IN Spread(sd, "stages", SelectSeq(sd.stages, Other))

(* lines 155-162 *)
updateStage(sd, id, field, value) ==
    Spread(sd, "stages",
           [k \in 1..Len(sd.stages) |->
               IF sd.stages[k].id = id THEN [sd.stages[k] EXCEPT ![field] = value]
               ELSE sd.stages[k]])

(* what is typed into the inputs of the form *)
RatesEntered == {0, 22}
SpeedsEntered == {0, 1}
FillsEntered == {60, 100}
ConservatismsEntered == {0, 10}
StandingTimesEntered == {0, 2}
StageFillsEntered == {70, 210}

(* the SCR input (lines 171-172) *)
ChangeScr ==
    /\ CanEdit
    /\ \E scr \in RatesEntered : StandingDataEdited(Spread(standingData, "scr", scr))

(* the swim speed input (lines 177-178) *)
ChangeSwimSpeed ==
    /\ CanEdit
    /\ \E speed \in SpeedsEntered :
          StandingDataEdited(Spread(standingData, "swimSpeed", speed))

(* the bottom gas select (lines 183-187), bound to data.bottomGasType: the  *)
(* property is assigned in place when another option is chosen; choosing    *)
(* the option that is set changes nothing and runs no effect                *)
ChangeBottomGas ==
    /\ CanEdit
    /\ \E k \in 1..Len(BOTTOM_GAS_TYPES) :
          /\ BOTTOM_GAS_TYPES[k].name # standingData.bottomGasType
          /\ StandingDataEdited([standingData EXCEPT
                                    !.bottomGasType = BOTTOM_GAS_TYPES[k].name])

(* the fill pressure input (lines 192-198) *)
ChangeFillPressure ==
    /\ CanEdit
    /\ \E fill \in FillsEntered :
          StandingDataEdited(Spread(standingData, "bottomGasFillPressure", fill))

(* the conservatism input (lines 203-209) *)
ChangeConservatism ==
    /\ CanEdit
    /\ \E bar \in ConservatismsEntered :
          StandingDataEdited(Spread(standingData, "conservatism", bar))

(* the stage standing time input (lines 214-220) *)
ChangeStandingTime ==
    /\ CanEdit
    /\ \E minutes \in StandingTimesEntered :
          StandingDataEdited(Spread(standingData, "stageStandingTime", minutes))

(* a click on Add Stage (line 290) *)
AddStage ==
    /\ CanEdit
    /\ StandingDataEdited(addStage(standingData, generateStageId(edits)))

(* a click on the remove button of a stage (lines 278-282) *)
RemoveStage ==
    /\ CanEdit
    /\ \E k \in 1..Len(standingData.stages) :
          StandingDataEdited(removeStage(standingData, standingData.stages[k].id))

(* the tank select of a stage (lines 245-253) *)
ChangeTank ==
    /\ CanEdit
    /\ \E k \in 1..Len(standingData.stages) : \E t \in 1..Len(STAGE_TANK_TYPES) :
          StandingDataEdited(updateStage(standingData, standingData.stages[k].id,
                                         "tankType", STAGE_TANK_TYPES[t].name))

(* the fill pressure input of a stage (lines 256-267) *)
ChangeStageFill ==
    /\ CanEdit
    /\ \E k \in 1..Len(standingData.stages) : \E fill \in StageFillsEntered :
          StandingDataEdited(updateStage(standingData, standingData.stages[k].id,
                                         "fillPressure", fill))

(* the Reserve checkbox of a stage (lines 270-275) *)
ChangeReserve ==
    /\ CanEdit
    /\ \E k \in 1..Len(standingData.stages) :
          StandingDataEdited(updateStage(standingData, standingData.stages[k].id,
                                         "reserveInBackGas",
                                         ~standingData.stages[k].reserveInBackGas))

----------------------------------------------------------------------------
(* Opening the editor (App.svelte lines 14-33) and the browser's storage.   *)

(* texts that are not JSON: a bare word, a text cut off after its first     *)
(* token, two values, a comma before the closing bracket, a property        *)
(* without a value                                                          *)
InvalidTexts ==
    { << Punct("word") >>,
      << Punct("{") >>,
      << Token("number", 1, ""), Token("number", 2, "") >>,
      << Punct("["), Token("number", 1, ""), Punct(","), Punct("]") >>,
      << Punct("{"), Token("string", 0, "scr"), Punct(":"), Punct("}") >> }

(* what the key may hold when something other than the save functions      *)
(* wrote it: nothing, the empty string, or a text that is not JSON          *)
ForeignContents == {None, Some(<<>>)} \cup {Some(text) : text \in InvalidTexts}

(* the browser or another script clears or overwrites a key, while the      *)
(* editor is idle: the calculation and the effects run to their end without *)
(* giving way to another script                                             *)
ForeignWrite ==
    /\ AtRest
    /\ \E key \in StorageKeys :
          \E raw \in ForeignContents :
              /\ localStorage' = [localStorage EXCEPT ![key] = raw]
              /\ saved' = [saved EXCEPT ![key] = None]
    /\ UNCHANGED <<standingData, sections, pc, si, stageStates, remainingBackGasLiters,
                   backGasUsedTotal, runningTime, timeDepthProduct, currentDepth,
                   isWayBack, results, pendingDropInserts, totalBackGasUsedAtEnd,
                   activeRecalcTurnPressure, fixed, returned, loaded, edits, effectRuns,
                   dragIndex>>

(* line 14: loadStandingData() ?? { scr: 20, ... } *)
LoadedStandingData(value) ==
    IF value.t \in {"null", "undefined"} THEN DefaultStandingData ELSE StandingDataOf(value)

(* line 22: loadSections() ?? [] *)
LoadedSections(value) ==
    IF value.t \in {"null", "undefined"} THEN <<>> ELSE SectionsOf(value)

(* The page is opened again.  Lines 14 and 22 load the configuration and    *)
(* the section list, or take the defaults; the calculation runs, and the    *)
(* effects of lines 27-33 save both.  loaded keeps what the two loads met   *)
(* and returned.  A load that threw would end the construction.             *)
Mount ==
    /\ AtRest
    /\ edits < MaxEdits
    /\ LET data == loadStandingData(localStorage)
           secs == loadSections(localStorage)
       IN /\ loaded' = [key \in StorageKeys |->
                           Some([raw |-> localStorage[key], saved |-> saved[key],
                                 outcome |-> IF key = STANDING_DATA_KEY THEN data ELSE secs])]
          /\ IF data.threw \/ secs.threw
             THEN UNCHANGED <<standingData, sections, pc, si, stageStates,
                              remainingBackGasLiters, backGasUsedTotal, runningTime,
                              timeDepthProduct, currentDepth, isWayBack, results,
                              pendingDropInserts, totalBackGasUsedAtEnd,
                              activeRecalcTurnPressure, fixed, localStorage, saved>>
             ELSE /\ Computable(LoadedStandingData(data.value), LoadedSections(secs.value))
                  /\ standingData' = LoadedStandingData(data.value)
                  /\ sections' = LoadedSections(secs.value)
                  /\ SetUp(standingData')
                  /\ BothSaved(standingData', sections')
                  /\ fixed' = None
    /\ edits' = edits + 1
    /\ effectRuns' = 0
    /\ dragIndex' = None
    /\ UNCHANGED returned

(* The editor as it is after lines 14-33 ran on a store that holds the      *)
(* configuration and a section list of one of the families: both are in the *)
(* store as the save effects write them, and the calculation is about to    *)
(* run.                                                                     *)
InitEditor(families) ==
    /\ \E family \in families :
          /\ standingData = family.sd
          /\ sections \in SectionLists(family.prefix, family.shapes)
    /\ pc = "first"
    /\ si = 1
    /\ stageStates = InitialStageStates(standingData)
    /\ remainingBackGasLiters = totalBackGas(standingData)
    /\ backGasUsedTotal = 0
    /\ runningTime = 0
    /\ timeDepthProduct = 0
    /\ currentDepth = 0
    /\ isWayBack = FALSE
    /\ results = <<>>
    /\ pendingDropInserts = <<>>
    /\ totalBackGasUsedAtEnd = 0
    /\ activeRecalcTurnPressure = None
    /\ fixed = None
    /\ returned = None
    /\ localStorage = saveSections(saveStandingData([key \in StorageKeys |-> None],
                                                    StandingDataValue(standingData)),
                                   SectionsValue(sections))
    /\ saved = [key \in StorageKeys |->
                   IF key = STANDING_DATA_KEY THEN Some(StandingDataValue(standingData))
                   ELSE Some(SectionsValue(sections))]
    /\ loaded = [key \in StorageKeys |-> None]
    /\ edits = 0
    /\ effectRuns = 0
    /\ dragIndex = None

----------------------------------------------------------------------------
(* Plans for the Fix button.  Consumption rate 22, swim speed 1 and swims   *)
(* at 40 m make every metre cost 110 litres (10 bar of an 11 L stage), so   *)
(* every quantity stays whole for every distance a fix can write.           *)
FixStandingData(fill, stages) ==
    [StandingData("2x80", fill, stages) EXCEPT !.swimSpeed = 1]

FixFamilies ==
    { \* 22 L at 100 bar (usable 30 bar, turn pressure 70 bar); the main
      \* passage, 4 m in and 4 m back, has used more than the usable third
      [sd |-> FixStandingData(100, <<>>),
       prefix |-> << Swim(40, 4), Marker("turnaround"), Swim(40, 4) >>,
       shapes |-> { Swim(40, 3), Swim(40, 1), Marker("turnaround"), Marker("recalculation") }],
      \* a fill pressure that is not a multiple of 10
      [sd |-> FixStandingData(65, <<>>), prefix |-> <<>>,
       shapes |-> { Swim(40, 3), Swim(40, 5), Marker("turnaround"), Marker("recalculation"),
                    [Marker("jump-left") EXCEPT !.distance = 30] }],
      \* a stage with 20 bar (2 m) above its drop pressure, 22 L at 60 bar,
      \* on the way in
      [sd |-> FixStandingData(60, << Stage("s1", 70, FALSE) >>), prefix |-> <<>>,
       shapes |-> { Swim(40, 4), Swim(40, 8), Marker("recalculation"),
                    StageDrop("s1") }] }

InitFix == InitEditor(FixFamilies)

(* the editor with clicks on Fix as its only input *)
NextFix ==
    FirstPass \/ BeginSecondPass \/ SecondPass \/ Return \/ FixDistance \/ AutoInsertEffect

SpecFix == InitFix /\ [][NextFix]_vars

----------------------------------------------------------------------------
(* Repeated calls.  App.svelte (line 24) derives the calculation from the   *)
(* configuration and the section list: calculateDive is called again each   *)
(* time one of them changes.  Every variable of the function is local, so a *)
(* call starts from the set-up code (lines 43-108) whatever ran before.     *)
(* The editor is opened on the short plans of two families.                 *)
CallFamilies ==
    { \* one stage with 2 m of gas above its drop pressure, breathed for 1 m
      \* and dropped
      [sd |-> FixStandingData(60, << Stage("s1", 70, FALSE) >>),
       prefix |-> << Swim(40, 1), StageDrop("s1") >>,
       shapes |-> { Swim(40, 3) }],
      \* the same stage and no plan, or a swim that outlasts the stage
      [sd |-> FixStandingData(60, << Stage("s1", 70, FALSE) >>), prefix |-> <<>>,
       shapes |-> { Swim(40, 3) }] }

MaxCallSections == 1

InitCalls ==
    /\ InitEditor(CallFamilies)
    /\ \E family \in CallFamilies : Len(sections) <= Len(family.prefix) + MaxCallSections

(* A turnaround before a swim that outlasts the stage makes the effect run  *)
(* without end (see C32).  A specification that reaches such a plan follows *)
(* the first MaxEffectRuns runs of the effect after an input and leaves the *)
(* plan there; the effect itself goes on.                                   *)
MaxEffectRuns == 3
AutoInsertFollowed == effectRuns < MaxEffectRuns /\ AutoInsertEffect

(* the editor with the inputs of the section list *)
NextCalls ==
    \/ FirstPass \/ BeginSecondPass \/ SecondPass \/ Return
    \/ AutoInsertFollowed
    \/ AddSection \/ RemoveSection \/ ClearAll \/ ChangeType \/ ChangeStage
    \/ ChangeWayBack \/ ChangeDepth \/ ChangeDistance \/ ChangeNote
    \/ AddReturnSections \/ HandleDragStart \/ HandleDrop \/ HandleDragEnd

SpecCalls == InitCalls /\ [][NextCalls]_vars

----------------------------------------------------------------------------
(* Plans for the effect: rate 22, swim speed 1 and swims at 40 m (110 L per *)
(* metre, 10 bar of an 11 L stage), so the parts of a split swim cost whole *)
(* litres.  Each stage holds 2 m of gas above its drop pressure.  The plans *)
(* lead into the cave: every marker the effect inserts is a drop, and the   *)
(* effect runs at most once for each stage.                                 *)
InsertFamilies ==
    { [sd |-> FixStandingData(100, << Stage("s1", 70, FALSE), Stage("s2", 70, FALSE) >>),
       prefix |-> <<>>,
       shapes |-> { Swim(40, 3), Swim(40, 5), StageDrop("s1"),
                    [Marker("jump-left") EXCEPT !.distance = 30] }] }

InitInsert == InitEditor(InsertFamilies)

(* the editor left alone *)
NextInsert == FirstPass \/ BeginSecondPass \/ SecondPass \/ Return \/ AutoInsertEffect

SpecInsert == InitInsert /\ [][NextInsert]_vars

(* Plans with a return leg.  Stage s1 holds 2 m of gas above its drop       *)
(* pressure.                                                                *)
LoopFamilies ==
    { [sd |-> FixStandingData(100, << Stage("s1", 70, FALSE) >>), prefix |-> <<>>,
       shapes |-> { Swim(40, 3), Marker("turnaround"), StageDrop("s1") }] }

InitLoop == InitEditor(LoopFamilies)

NextLoop == FirstPass \/ BeginSecondPass \/ SecondPass \/ Return \/ AutoInsertFollowed

SpecLoop == InitLoop /\ [][NextLoop]_vars

----------------------------------------------------------------------------
(* The editor with the inputs of the configuration form, opened on an empty *)
(* store or on a store that holds a plan, next to whatever else writes the  *)
(* store.                                                                   *)
StorageFamilies ==
    { \* nothing stored: the default configuration and no sections
      [sd |-> DefaultStandingData, prefix |-> <<>>, shapes |-> {}],
      \* a plan without stages that the default configuration covers too
      [sd |-> StandingData("2x80", 60, <<>>), prefix |-> << Swim(10, 150) >>,
       shapes |-> {}],
      \* a plan with a stage: 3 m in, of which the stage gives 2
      [sd |-> FixStandingData(100, << Stage("s1", 70, FALSE) >>),
       prefix |-> << Swim(40, 3) >>, shapes |-> {}] }

InitStorage == InitEditor(StorageFamilies)

NextStorage ==
    \/ FirstPass \/ BeginSecondPass \/ SecondPass \/ Return
    \/ AutoInsertEffect
    \/ ChangeScr \/ ChangeSwimSpeed \/ ChangeBottomGas \/ ChangeFillPressure
    \/ ChangeConservatism \/ ChangeStandingTime
    \/ AddStage \/ RemoveStage \/ ChangeTank \/ ChangeStageFill \/ ChangeReserve
    \/ AddReturnSections
    \/ Mount \/ ForeignWrite

SpecStorage == InitStorage /\ [][NextStorage]_vars

----------------------------------------------------------------------------
(* Properties of calculateDive.  They are stated on the results array and   *)
(* on the advisories, with their own arithmetic on litres.                  *)

Done == pc = "done"
Indices == 1..Len(results)
IsType(i, type) == sections[i].type = type
NumStages == Len(standingData.stages)

(* the stage states and the primary volume a section starts from *)
StatesBefore(i) == IF i = 1 THEN InitialStageStates(standingData) ELSE results[i - 1].stageStates
PrimaryBefore(i) == IF i = 1 THEN totalBackGas(standingData) ELSE results[i - 1].remainingBackGasLiters

(* litres drawn from stage k, and from primary gas, by section i *)
StageDrawn(i, k) ==
    Litres(StatesBefore(i)[k].currentPressure - results[i].stageStates[k].currentPressure,
           results[i].stageStates[k].volume)
PrimaryDrawn(i) == PrimaryBefore(i) - results[i].remainingBackGasLiters

RECURSIVE StageDrawnUpTo(_, _)
StageDrawnUpTo(i, k) == IF k = 0 THEN 0 ELSE StageDrawn(i, k) + StageDrawnUpTo(i, k - 1)

(* the direction the markers strictly before position i produce: the number *)
(* of turnarounds since the last recalculation is odd                       *)
LastRecalculationBefore(i) ==
    IF \E j \in 1..(i - 1) : IsType(j, "recalculation")
    THEN CHOOSE j \in 1..(i - 1) :
            /\ IsType(j, "recalculation")
            /\ \A m \in (j + 1)..(i - 1) : ~IsType(m, "recalculation")
    ELSE 0
Returning(i) ==
    Cardinality({j \in (LastRecalculationBefore(i) + 1)..(i - 1) : IsType(j, "turnaround")}) % 2 = 1

FirstRecalculation ==
    IF \E j \in 1..Len(sections) : IsType(j, "recalculation")
    THEN CHOOSE j \in 1..Len(sections) :
            /\ IsType(j, "recalculation")
            /\ \A m \in 1..(j - 1) : ~IsType(m, "recalculation")
    ELSE Len(sections) + 1

(* remaining primary pressure of result i is strictly below p bar *)
PrimaryBelow(i, p) == results[i].remainingBackGasLiters < p * bottomGasVolume(standingData)

(* C1: in every section that is not a stage-event the demand is taken from  *)
(* the stages in list order: only an un-dropped stage is drawn and only     *)
(* down to its drop pressure, a later stage is drawn only after every       *)
(* earlier un-dropped stage is at or below its drop pressure, and primary   *)
(* gas is drawn only for what is left once every un-dropped stage is at or  *)
(* below its drop pressure.                                                 *)
C1_StagesInListOrder ==
    \A i \in Indices :
        ~IsType(i, "stage-drop") =>
            LET before == StatesBefore(i)
                after == results[i].stageStates
            IN /\ \A k \in 1..NumStages :
                     /\ after[k].currentPressure <= before[k].currentPressure
                     /\ after[k].currentPressure < before[k].currentPressure =>
                            /\ ~before[k].dropped
                            /\ after[k].currentPressure >= before[k].dropPressure
               /\ \A j, k \in 1..NumStages :
                     (j < k /\ after[k].currentPressure < before[k].currentPressure
                            /\ ~before[j].dropped) =>
                         after[j].currentPressure <= before[j].dropPressure
               /\ PrimaryDrawn(i) >= 0
               /\ PrimaryDrawn(i) > 0 =>
                     \A k \in 1..NumStages :
                         ~before[k].dropped => after[k].currentPressure <= before[k].dropPressure
               /\ PrimaryDrawn(i) = results[i].gasConsumed - StageDrawnUpTo(i, NumStages)

(* one section drew from two stages and then from primary gas *)
C1_Witness ==
    \E i \in Indices :
        /\ NumStages = 2
        /\ StageDrawn(i, 1) > 0 /\ StageDrawn(i, 2) > 0 /\ PrimaryDrawn(i) > 0

(* C2: before the first recalculation a section is flagged exactly when it  *)
(* is outbound, its remaining primary pressure is strictly below the        *)
(* original turn pressure, and that turn pressure is positive.              *)
C2_WarningBeforeRecalculation ==
    \A i \in Indices :
        i < FirstRecalculation =>
            (results[i].turnWarning <=>
                /\ ~results[i].isWayBack
                /\ PrimaryBelow(i, turnPressureBar(standingData))
                /\ turnPressureBar(standingData) > 0)

(* both passes are over, the plan has a recalculation, and a section before *)
(* it is flagged while another outbound one sits exactly at turn pressure   *)
C2_Witness ==
    /\ Done
    /\ FirstRecalculation <= Len(sections)
    /\ \E i, j \in Indices :
          /\ i < FirstRecalculation /\ results[i].turnWarning
          /\ j < i /\ ~results[j].turnWarning /\ ~results[j].isWayBack
          /\ results[j].remainingBackGasLiters
                 = turnPressureBar(standingData) * bottomGasVolume(standingData)

(* C3: a result on a return leg is never flagged, in either pass. *)
C3_NoWarningOnReturn ==
    \A i \in Indices : results[i].isWayBack => ~results[i].turnWarning

(* after both passes: a section on the return leg of a side passage entered *)
(* after a recalculation, below the turn pressure and below the pressure at *)
(* the recalculation                                                        *)
C3_Witness ==
    /\ Done
    /\ \E r, i \in Indices :
          /\ IsType(r, "recalculation") /\ r < i
          /\ results[i].isWayBack
          /\ IsType(i, "swim")
          /\ turnPressureBar(standingData) > 0
          /\ PrimaryBelow(i, turnPressureBar(standingData))
          /\ results[i].remainingBackGasLiters < results[r].remainingBackGasLiters

(* C4: the direction starts outbound, every turnaround flips it, every      *)
(* recalculation forces it outbound, nothing else changes it, and result i  *)
(* reports the direction produced by the markers strictly before i.         *)
C4_Direction ==
    /\ \A i \in Indices : results[i].isWayBack = Returning(i)
    /\ pc = "first" => isWayBack = Returning(si)

(* a recalculation reached on a return leg reports returning, and the       *)
(* section after it is outbound                                             *)
C4_Witness ==
    \E i \in Indices :
        /\ IsType(i, "recalculation") /\ results[i].isWayBack
        /\ i + 1 \in Indices /\ ~results[i + 1].isWayBack
        /\ \E j \in 1..(i - 1) : IsType(j, "jump-left") /\ ~results[j].isWayBack

(* index of the configured stage with this id, 0 if there is none *)
StageIndex(id) ==
    IF \E k \in 1..NumStages : standingData.stages[k].id = id
    THEN CHOOSE k \in 1..NumStages : standingData.stages[k].id = id
    ELSE 0

(* index of the configured stage that section i names, 0 if it names none *)
NamedStage(i) ==
    IF IsSome(sections[i].stageId) THEN StageIndex(Get(sections[i].stageId)) ELSE 0

(* C5: a stage-event that names a configured stage drops it on the way in   *)
(* and picks it up on the way back: an outbound event leaves the stage      *)
(* dropped, a returning event on a dropped stage clears the flag and sets   *)
(* the drop pressure to 0, a pickup of an un-dropped stage and a drop of a  *)
(* dropped stage change nothing, no other stage changes, and a stage that   *)
(* is dropped when a section starts is not breathed in it.                  *)
C5_StageEvent ==
    \A i \in Indices :
        LET before == StatesBefore(i)
            after == results[i].stageStates
            k == NamedStage(i)
        IN /\ (IsType(i, "stage-drop") /\ k # 0) =>
                 /\ \A j \in 1..NumStages : j # k => after[j] = before[j]
                 /\ ~results[i].isWayBack =>
                        after[k] = [before[k] EXCEPT !.dropped = TRUE]
                 /\ (results[i].isWayBack /\ before[k].dropped) =>
                        after[k] = [before[k] EXCEPT !.dropped = FALSE, !.dropPressure = 0]
                 /\ (results[i].isWayBack /\ ~before[k].dropped) => after[k] = before[k]
           /\ \A j \in 1..NumStages :
                 before[j].dropped =>
                    /\ after[j].currentPressure = before[j].currentPressure
                    /\ ~Includes(results[i].breathedStageIds, before[j].id)

(* a stage that was dropped at a marker and picked up on the way back has   *)
(* been breathed to 0 bar, below the drop pressure it started with          *)
C5_Witness ==
    \E i \in Indices : \E k \in 1..NumStages :
        /\ StageDrawn(i, k) > 0
        /\ results[i].stageStates[k].dropPressure = 0
        /\ results[i].stageStates[k].currentPressure = 0
        /\ \E d, u \in 1..(i - 1) :
              /\ d < u
              /\ IsType(d, "stage-drop") /\ NamedStage(d) = k
              /\ ~results[d].isWayBack /\ results[d].stageStates[k].dropped
              /\ IsType(u, "stage-drop") /\ NamedStage(u) = k
              /\ results[u].isWayBack /\ ~results[u].stageStates[k].dropped

(* ids of the stages named by a stage-event section at an outbound position *)
OutboundMarkerIds ==
    { Get(sections[j].stageId) : j \in { m \in 1..Len(sections) :
          IsType(m, "stage-drop") /\ Truthy(sections[m].stageId) /\ ~Returning(m) } }

AdvisoryIndices == 1..Len(pendingDropInserts)

(* C6: a stage with a stage-event marker at an outbound position is never   *)
(* dropped inline and never gets an advisory; a section that is not a       *)
(* stage-event leaves its dropped flag alone and the rest of the demand is  *)
(* still met.  A stage without such a marker (one whose only marker is on a *)
(* return leg included) is dropped inline by a section that goes on to draw *)
(* primary gas.                                                             *)
C6_ExplicitMarker ==
    /\ \A n \in AdvisoryIndices : pendingDropInserts[n].stageId \notin OutboundMarkerIds
    /\ \A i \in Indices :
          LET before == StatesBefore(i)
              after == results[i].stageStates
          IN /\ \A k \in 1..NumStages :
                   after[k].id \in OutboundMarkerIds =>
                      /\ ~Includes(results[i].stageDroppedIds, after[k].id)
                      /\ ~IsType(i, "stage-drop") => after[k].dropped = before[k].dropped
             /\ \A k \in 1..NumStages :
                   (after[k].id \notin OutboundMarkerIds /\ ~before[k].dropped
                        /\ ~IsType(i, "stage-drop") /\ PrimaryDrawn(i) > 0) =>
                      /\ after[k].dropped
                      /\ Includes(results[i].stageDroppedIds, after[k].id)
             /\ results[i].gasConsumed = StageDrawnUpTo(i, NumStages) + PrimaryDrawn(i)

(* one section drew a stage with an outbound marker down to its drop        *)
(* pressure and left it un-dropped, dropped inline a stage whose only       *)
(* marker is on a return leg, and went on to primary gas                    *)
C6_Witness ==
    \E i \in Indices : \E k, m \in 1..NumStages :
        /\ results[i].stageStates[k].id \in OutboundMarkerIds
        /\ StageDrawn(i, k) > 0
        /\ ~results[i].stageStates[k].dropped
        /\ results[i].stageStates[k].currentPressure = results[i].stageStates[k].dropPressure
        /\ PrimaryDrawn(i) > 0
        /\ Includes(results[i].stageDroppedIds, results[i].stageStates[m].id)
        /\ \E j \in 1..Len(sections) :
              IsType(j, "stage-drop") /\ sections[j].stageId = Some(results[i].stageStates[m].id)

(* position of the section with this id, 0 if there is none *)
SectionIndex(id) ==
    IF \E i \in 1..Len(sections) : sections[i].id = id
    THEN CHOOSE i \in 1..Len(sections) : sections[i].id = id
    ELSE 0

RECURSIVE InlineDropsUpTo(_)
InlineDropsUpTo(i) == IF i = 0 THEN 0 ELSE Len(results[i].stageDroppedIds) + InlineDropsUpTo(i - 1)

(* C7 (amended): there is one advisory for exactly each inline drop;        *)
(* splitAtDistance is set exactly when the section is a swim with positive  *)
(* demand, lies in 0..distance and is an integer nearest to (gas consumed   *)
(* in the section before the drop / total demand) * distance: where that    *)
(* value lies a half metre between two integers it is one of the two, the   *)
(* lower one when the product computed in doubles falls below the half.     *)
C7_Advisories ==
    /\ Len(pendingDropInserts) = InlineDropsUpTo(Len(results))
    /\ \A i \in Indices : \A id \in StageIds :
          (\E n \in AdvisoryIndices :
               /\ pendingDropInserts[n].afterSectionId = sections[i].id
               /\ pendingDropInserts[n].stageId = id)
          <=> Includes(results[i].stageDroppedIds, id)
    /\ \A n \in AdvisoryIndices :
          LET a == pendingDropInserts[n]
              i == SectionIndex(a.afterSectionId)
              k == StageIndex(a.stageId)
              demand == results[i].gasConsumed
              consumedBefore == StageDrawnUpTo(i, k)
          IN /\ i \in Indices /\ k # 0
             /\ IsSome(a.splitAtDistance) <=> (IsType(i, "swim") /\ demand > 0)
             /\ IsSome(a.splitAtDistance) =>
                   LET split == Get(a.splitAtDistance)
                   IN /\ 0 <= split /\ split <= sections[i].distance
                      /\ (2 * split - 1) * demand <= 2 * consumedBefore * sections[i].distance
                      /\ 2 * consumedBefore * sections[i].distance <= (2 * split + 1) * demand

(* C7 as stated: splitAtDistance equals round(gas consumed in the section   *)
(* before the drop / total demand of the section * section distance), the   *)
(* quotient taken exactly and a half metre rounded up as Math.round does    *)
C7_AsStated ==
    /\ Len(pendingDropInserts) = InlineDropsUpTo(Len(results))
    /\ \A i \in Indices : \A id \in StageIds :
          (\E n \in AdvisoryIndices :
               /\ pendingDropInserts[n].afterSectionId = sections[i].id
               /\ pendingDropInserts[n].stageId = id)
          <=> Includes(results[i].stageDroppedIds, id)
    /\ \A n \in AdvisoryIndices :
          LET a == pendingDropInserts[n]
              i == SectionIndex(a.afterSectionId)
              k == StageIndex(a.stageId)
              demand == results[i].gasConsumed
              consumedBefore == StageDrawnUpTo(i, k)
          IN /\ i \in Indices /\ k # 0
             /\ IsSome(a.splitAtDistance) <=> (IsType(i, "swim") /\ demand > 0)
             /\ IsSome(a.splitAtDistance) =>
                   LET split == Get(a.splitAtDistance)
                   IN /\ 0 <= split /\ split <= sections[i].distance
                      /\ split = (2 * consumedBefore * sections[i].distance + demand)
                                     \div (2 * demand)

(* an advisory inside a swim whose exact split point is a half metre above  *)
(* the split distance: the product computed in doubles fell below the half  *)
C7_Witness ==
    \E n \in AdvisoryIndices :
        /\ IsSome(pendingDropInserts[n].splitAtDistance)
        /\ LET a == pendingDropInserts[n]
               i == SectionIndex(a.afterSectionId)
               split == Get(a.splitAtDistance)
           IN /\ 0 < split /\ split < sections[i].distance
              /\ (2 * split + 1) * results[i].gasConsumed
                     = 2 * StageDrawnUpTo(i, StageIndex(a.stageId)) * sections[i].distance

(* the litres the simulator lets a section breathe from stage state st *)
Breathable(st) == Litres(st.currentPressure - st.dropPressure, st.volume)

(* the stage states a recalculation looks at *)
HoldsGas(st) == st.currentPressure > 0
UndroppedWithGas(i) ==
    {k \in 1..NumStages : ~results[i].stageStates[k].dropped /\ HoldsGas(results[i].stageStates[k])}
DroppedWithGas(i) ==
    {k \in 1..NumStages : results[i].stageStates[k].dropped /\ HoldsGas(results[i].stageStates[k])}
LitresIn(i, k) ==
    Litres(results[i].stageStates[k].currentPressure, results[i].stageStates[k].volume)

RECURSIVE SumLitres(_, _)
SumLitres(i, ks) ==
    IF ks = {} THEN 0
    ELSE LET k == CHOOSE k \in ks : TRUE IN LitresIn(i, k) + SumLitres(i, ks \ {k})

(* the second pass has gone over section i *)
SecondPassOver(i) == pc = "done" \/ (pc = "second" /\ i < si)

(* C8: once the second pass has gone over it, a section has a               *)
(* RecalculationResult exactly when it is a recalculation; the scenario is  *)
(* kill-stage when an un-dropped stage holds gas, else back-gas re-entry    *)
(* reserving the gas of the dropped stages that hold gas, else back-gas     *)
(* re-entry with no reservation.                                            *)
C8_Scenario ==
    \A i \in Indices :
        /\ IsSome(results[i].recalculation) <=> (IsType(i, "recalculation") /\ SecondPassOver(i))
        /\ IsSome(results[i].recalculation) =>
              LET r == Get(results[i].recalculation)
              IN IF UndroppedWithGas(i) # {}
                 THEN /\ r.scenario = "kill-stage"
                      /\ r.stageReservationLiters = None
                 ELSE IF DroppedWithGas(i) # {}
                 THEN /\ r.scenario = "backgas-reentry"
                      /\ r.stageReservationLiters = Some(SumLitres(i, DroppedWithGas(i)))
                 ELSE /\ r.scenario = "backgas-reentry"
                      /\ r.stageReservationLiters = None

(* a stage dropped on the way in and picked up on the way back still holds  *)
(* gas at a recalculation, which reports kill-stage                         *)
C8_Witness ==
    /\ Done
    /\ \E i \in Indices : \E k \in 1..NumStages :
          /\ IsSome(results[i].recalculation)
          /\ Get(results[i].recalculation).scenario = "kill-stage"
          /\ k \in UndroppedWithGas(i)
          /\ results[i].stageStates[k].dropPressure = 0
          /\ DroppedWithGas(i) # {}

(* the stage a kill-stage recalculation selects: the first un-dropped stage *)
(* that holds gas                                                           *)
KillStageOf(i) == CHOOSE k \in UndroppedWithGas(i) : \A j \in UndroppedWithGas(i) : k <= j

(* C9: in the kill-stage scenario possible holds exactly when gas to exit + *)
(* the stage's remaining volume <= remaining primary volume / 2, and the    *)
(* threshold is the primary pressure at the recalculation rounded down to a *)
(* multiple of 10.                                                          *)
C9_KillStage ==
    \A i \in Indices :
        (IsSome(results[i].recalculation)
            /\ Get(results[i].recalculation).scenario = "kill-stage") =>
           LET r == Get(results[i].recalculation)
               remainingPrimary == results[i].remainingBackGasLiters
               volume == bottomGasVolume(standingData)
           IN /\ r.possible <=>
                    2 * (r.backGasToExitLiters + LitresIn(i, KillStageOf(i))) <= remainingPrimary
              /\ r.recalcTurnPressureBar % 10 = 0
              /\ r.recalcTurnPressureBar * volume <= remainingPrimary
              /\ remainingPrimary < (r.recalcTurnPressureBar + 10) * volume

(* a feasible kill-stage recalculation with gas to exit, at a primary        *)
(* pressure that is not a multiple of 10                                    *)
C9_Witness ==
    /\ Done
    /\ \E i \in Indices :
          /\ IsSome(results[i].recalculation)
          /\ Get(results[i].recalculation).scenario = "kill-stage"
          /\ Get(results[i].recalculation).possible
          /\ Get(results[i].recalculation).backGasToExitLiters > 0
          /\ Get(results[i].recalculation).recalcTurnPressureBar * bottomGasVolume(standingData)
                 < results[i].remainingBackGasLiters

(* three times the available budget of a back-gas re-entry:                 *)
(* remaining primary - reserved stage gas - 2 * gas to exit                 *)
BudgetTimes3(i) ==
    LET r == Get(results[i].recalculation)
    IN results[i].remainingBackGasLiters
         - (IF IsSome(r.stageReservationLiters) THEN Get(r.stageReservationLiters) ELSE 0)
         - 2 * r.backGasToExitLiters

IsReentry(i) ==
    IsSome(results[i].recalculation) /\ Get(results[i].recalculation).scenario = "backgas-reentry"

(* b is x / (3 * volume) bar rounded down to a multiple of 10 *)
IsFloorTo10OfBudget(b, x) ==
    /\ b % 10 = 0
    /\ b * 3 * bottomGasVolume(standingData) <= x
    /\ x < (b + 10) * 3 * bottomGasVolume(standingData)

(* t is (remaining primary pressure of result i - b) rounded up to a multiple of 10 *)
IsCeilTo10OfRest(t, i, b) ==
    /\ t % 10 = 0
    /\ (t - 10) * bottomGasVolume(standingData)
           < results[i].remainingBackGasLiters - b * bottomGasVolume(standingData)
    /\ results[i].remainingBackGasLiters - b * bottomGasVolume(standingData)
           <= t * bottomGasVolume(standingData)

(* C10 as stated: the reported available pressure is the budget             *)
(* (remaining primary - reservation - 2 * gas to exit) / 3 rounded down to  *)
(* a multiple of 10 bar, and the threshold is (primary pressure - that      *)
(* pressure) rounded up to a multiple of 10.                                *)
C10_AsStated ==
    \A i \in Indices :
        IsReentry(i) =>
           LET r == Get(results[i].recalculation)
           IN /\ IsFloorTo10OfBudget(r.availableGasBar, BudgetTimes3(i))
              /\ IsCeilTo10OfRest(r.recalcTurnPressureBar, i, r.availableGasBar)

(* C10, amended: a negative budget counts as 0; the reported available      *)
(* pressure is max(0, budget) rounded down to a multiple of 10 bar, the     *)
(* reported litres are that pressure times the tank volume, and the         *)
(* threshold is (primary pressure - that pressure) rounded up to a multiple *)
(* of 10.                                                                   *)
C10_Reentry ==
    \A i \in Indices :
        IsReentry(i) =>
           LET r == Get(results[i].recalculation)
           IN /\ IsFloorTo10OfBudget(r.availableGasBar,
                     IF BudgetTimes3(i) < 0 THEN 0 ELSE BudgetTimes3(i))
              /\ r.availableGasLiters = r.availableGasBar * bottomGasVolume(standingData)
              /\ IsCeilTo10OfRest(r.recalcTurnPressureBar, i, r.availableGasBar)

(* a back-gas re-entry with a reservation, gas to exit and a positive       *)
(* rounded budget, at a primary pressure that is not a multiple of 10       *)
C10_Witness ==
    /\ Done
    /\ \E i \in Indices :
          /\ IsReentry(i)
          /\ LET r == Get(results[i].recalculation)
             IN /\ IsSome(r.stageReservationLiters)
                /\ r.backGasToExitLiters > 0
                /\ r.availableGasBar > 0
                /\ r.recalcTurnPressureBar * bottomGasVolume(standingData)
                      > results[i].remainingBackGasLiters
                           - r.availableGasBar * bottomGasVolume(standingData)

----------------------------------------------------------------------------
(* the recalculation whose side trip section i lies on: the last            *)
(* recalculation before i with no turnaround between it and i; 0 if none    *)
SideTripOf(i) ==
    IF \E r \in 1..(i - 1) :
          /\ IsType(r, "recalculation")
          /\ \A m \in (r + 1)..(i - 1) : ~IsType(m, "recalculation") /\ ~IsType(m, "turnaround")
    THEN CHOOSE r \in 1..(i - 1) :
          /\ IsType(r, "recalculation")
          /\ \A m \in (r + 1)..(i - 1) : ~IsType(m, "recalculation") /\ ~IsType(m, "turnaround")
    ELSE 0

(* section i follows a recalculation and precedes the next turnaround *)
OnSideTrip(i) ==
    SideTripOf(i) # 0 /\ ~IsType(i, "turnaround") /\ ~IsType(i, "recalculation")

ReportedThreshold(r) == Get(results[r].recalculation).recalcTurnPressureBar

(* section i is below the threshold reported by recalculation r, and that   *)
(* threshold is positive                                                    *)
BelowReported(i, r) == PrimaryBelow(i, ReportedThreshold(r)) /\ ReportedThreshold(r) > 0

(* section i is below the primary pressure at recalculation r, and that     *)
(* pressure is positive                                                     *)
BelowPressureAt(i, r) ==
    /\ results[i].remainingBackGasLiters < results[r].remainingBackGasLiters
    /\ results[r].remainingBackGasLiters > 0 /\ bottomGasVolume(standingData) > 0

(* the rule in force on the side trip of recalculation r *)
BelowInForce(i, r) ==
    IF Get(results[r].recalculation).possible THEN BelowReported(i, r) ELSE BelowPressureAt(i, r)

(* the normal turn-pressure rule *)
NormalRule(i) ==
    /\ ~results[i].isWayBack
    /\ PrimaryBelow(i, turnPressureBar(standingData))
    /\ turnPressureBar(standingData) > 0

EndsSideTrip(t) == IsType(t, "turnaround") /\ SideTripOf(t) # 0

(* section j lies after turnaround t with no recalculation from t to j *)
AfterSideTrip(j, t) == t < j /\ \A m \in (t + 1)..j : ~IsType(m, "recalculation")

(* C12 as stated: the turnaround that ends a side trip, and every section   *)
(* after it until another recalculation, is flagged by the normal           *)
(* turn-pressure rule only.                                                 *)
C12_AsStated ==
    \A t \in Indices :
        (EndsSideTrip(t) /\ SecondPassOver(t)) =>
            /\ results[t].turnWarning <=> NormalRule(t)
            /\ \A j \in Indices :
                  (AfterSideTrip(j, t) /\ SecondPassOver(j)) =>
                      (results[j].turnWarning <=> NormalRule(j))

(* C12, amended: the turnaround that ends a side trip is itself still an    *)
(* outbound section and is flagged by the threshold of the recalculation;   *)
(* the threshold stops applying after it: every later section, until        *)
(* another recalculation, is flagged by the normal turn-pressure rule only. *)
C12_ClearedAfterTurnaround ==
    \A t \in Indices :
        (EndsSideTrip(t) /\ SecondPassOver(t)) =>
            /\ results[t].turnWarning <=> BelowInForce(t, SideTripOf(t))
            /\ \A j \in Indices :
                  (AfterSideTrip(j, t) /\ SecondPassOver(j)) =>
                      (results[j].turnWarning <=> NormalRule(j))

(* a turnaround ending a side trip on which the two rules differ, followed  *)
(* by an outbound section that the threshold of the recalculation would     *)
(* flag and the normal rule does not                                        *)
C12_Witness ==
    /\ Done
    /\ \E t, j \in Indices :
          /\ EndsSideTrip(t)
          /\ AfterSideTrip(j, t)
          /\ ~results[j].isWayBack
          /\ BelowInForce(j, SideTripOf(t))
          /\ ~results[j].turnWarning

----------------------------------------------------------------------------
(* the plan starts with: swim out, turnaround, swim back at the same depth, *)
(* and section r is the recalculation that follows; no stages are carried   *)
OutAndBackBefore(r) ==
    /\ r = 4 /\ r <= Len(sections)
    /\ IsType(1, "swim") /\ IsType(2, "turnaround") /\ IsType(3, "swim") /\ IsType(4, "recalculation")
    /\ sections[1].avgDepth = sections[3].avgDepth
    /\ sections[3].distance <= sections[1].distance
    /\ NumStages = 0

(* metres still to swim to the exit at that recalculation *)
ShortOfExit == sections[1].distance - sections[3].distance

(* C13 (the code does not satisfy it): when the recalculation sits at the   *)
(* cave exit (swim out D, turnaround, swim back D at the same depth,        *)
(* recalculation) its backGasToExitLiters and backGasToExitBar are 0,       *)
(* whatever follows the recalculation.                                      *)
C13_ZeroAtExit ==
    (SecondPassOver(4) /\ OutAndBackBefore(4) /\ ShortOfExit = 0) =>
        /\ Get(results[4].recalculation).backGasToExitLiters = 0
        /\ Get(results[4].recalculation).backGasToExitBar.num = 0

(* C14 (the code does not satisfy it): when the return before the           *)
(* recalculation is k metres short of the outbound distance, the gas to     *)
(* exit is consumption rate * (depth / 10 + 1) * (k / swim speed), whatever *)
(* follows the recalculation.                                               *)
C14_GasToExitOfShortfall ==
    (SecondPassOver(4) /\ OutAndBackBefore(4) /\ ShortOfExit > 0) =>
        Get(results[4].recalculation).backGasToExitLiters * 10 * standingData.swimSpeed
            = standingData.scr * (sections[1].avgDepth + 10) * ShortOfExit

----------------------------------------------------------------------------
(* reading a property of a result: Some(value), or None when the result has *)
(* no such property (undefined in the source)                               *)
FieldOf(result, name) == IF name \in DOMAIN result THEN Some(result[name]) ELSE None

(* a swim on the outbound main leg: no turnaround or recalculation precedes it *)
OnMainLegOut(i) ==
    /\ IsType(i, "swim")
    /\ \A m \in 1..(i - 1) : ~IsType(m, "turnaround") /\ ~IsType(m, "recalculation")

(* C15 (the code does not satisfy it): every section result carries         *)
(* distanceFromExit; a swim on the outbound main leg raises it by the swim  *)
(* distance, a swim on a return leg lowers it by the swim distance,         *)
(* turnaround and recalculation sections leave it unchanged, and when the   *)
(* last section is at the exit its distanceFromExit, timeFromExit and       *)
(* freeLitersFromExit are all 0.                                            *)
C15_DistanceFromExit ==
    \A i \in Indices :
        LET d == FieldOf(results[i], "distanceFromExit")
            before == IF i = 1 THEN Some(0) ELSE FieldOf(results[i - 1], "distanceFromExit")
        IN /\ IsSome(d) /\ IsSome(before)
           /\ (IsType(i, "turnaround") \/ IsType(i, "recalculation")) => Get(d) = Get(before)
           /\ OnMainLegOut(i) => Get(d) = Get(before) + sections[i].distance
           /\ (IsType(i, "swim") /\ results[i].isWayBack) =>
                  Get(d) = Get(before) - sections[i].distance
           /\ (i = Len(sections) /\ Get(d) = 0) =>
                  /\ FieldOf(results[i], "timeFromExit") = Some(0)
                  /\ FieldOf(results[i], "freeLitersFromExit") = Some(0)

----------------------------------------------------------------------------
(* Properties of the Fix button, under SpecFix. *)

(* the litres of primary gas below which section i is flagged: the          *)
(* threshold of the recalculation whose side trip it lies on, else the      *)
(* original turn pressure                                                   *)
ThresholdLitres(i) ==
    IF OnSideTrip(i)
    THEN IF Get(results[SideTripOf(i)].recalculation).possible
         THEN ReportedThreshold(SideTripOf(i)) * bottomGasVolume(standingData)
         ELSE results[SideTripOf(i)].remainingBackGasLiters
    ELSE turnPressureBar(standingData) * bottomGasVolume(standingData)

(* budget remains at the start of swim i: the primary gas above the         *)
(* threshold pays for at least one metre of the swim, or the primary gas is *)
(* not below the threshold and a carried stage holds at least one metre's   *)
(* gas above its drop pressure                                              *)
BudgetRemains(i) ==
    \/ (PrimaryBefore(i) - ThresholdLitres(i)) * sections[i].distance >= results[i].gasConsumed
    \/ /\ PrimaryBefore(i) >= ThresholdLitres(i)
       /\ \E k \in 1..NumStages :
             /\ ~StatesBefore(i)[k].dropped
             /\ Breathable(StatesBefore(i)[k]) * sections[i].distance
                    >= results[i].gasConsumed

Breached(i) == IsType(i, "swim") /\ sections[i].distance > 0 /\ results[i].turnWarning

(* C16 (the code does not satisfy it): after a breached swim section got    *)
(* the distance fixDistance returned and the simulation ran again, that     *)
(* section has turnWarning false.                                           *)
C16_RoundTrip ==
    (Done /\ IsSome(fixed) /\ IsSome(Get(fixed).distance)) =>
        ~results[Get(fixed).sectionIndex].turnWarning

(* C17 (the code does not satisfy it): for a breached swim section at whose *)
(* start budget remains, fixDistance returns a distance strictly greater    *)
(* than 0.                                                                  *)
C17_PositiveWhileBudgetRemains ==
    Done =>
        \A i \in Indices :
            (Breached(i) /\ BudgetRemains(i)) =>
                LET d == fixDistance(sections, results, usableBackGasRounded(standingData), i)
                IN IsSome(d) /\ Get(d) > 0

(* budgets to try fixDistance with: the one the editor passes, none, a      *)
(* negative one and a large one                                             *)
Budgets == {usableBackGasRounded(standingData), Rat(0, 1), Rat(0 - 110, 1), Rat(2200, 1)}

(* C18: for a section that is not a swim fixDistance returns without a      *)
(* distance and the section list stays as it is, whatever the results and   *)
(* the budget are.                                                          *)
C18_NonSwimUntouched ==
    Done =>
        \A i \in Indices : \A usable \in Budgets :
            ~IsType(i, "swim") => fixDistance(sections, results, usable, i) = None

(* a jump section that carries a distance and drew primary gas while the    *)
(* usable third was not spent: the arithmetic of fixDistance would give a   *)
(* positive distance for it                                                 *)
C18_Witness ==
    /\ Done
    /\ \E i \in Indices :
          /\ IsType(i, "jump-left") /\ sections[i].distance > 0
          /\ PrimaryDrawn(i) > 0
          /\ results[i].turnWarning
          /\ totalBackGas(standingData) - PrimaryBefore(i) < usableBackGasRounded(standingData).num

----------------------------------------------------------------------------
(* section i lies on the side trip of the kill-stage recalculation r, the   *)
(* selected stage was picked up on the way back, and that stage has covered *)
(* the whole demand of the side trip up to and including i                  *)
StageCoversSideTrip(r, i) ==
    /\ OnSideTrip(i) /\ SideTripOf(i) = r /\ SecondPassOver(i)
    /\ Get(results[r].recalculation).scenario = "kill-stage"
    /\ results[r].stageStates[KillStageOf(r)].dropPressure = 0
    /\ results[i].gasConsumed > 0
    /\ StageDrawn(i, KillStageOf(r)) = results[i].gasConsumed
    /\ \A j \in (r + 1)..i : PrimaryDrawn(j) = 0

(* C19: when a picked-up stage fully covers the demand of the side trip     *)
(* after a kill-stage recalculation, the primary pressure after the section *)
(* is within 1 bar of the pressure at the recalculation, the reported       *)
(* threshold is a multiple of 10 that is not above that pressure, and the   *)
(* section is not flagged.                                                  *)
C19_NoFalseBreach ==
    \A r, i \in Indices :
        StageCoversSideTrip(r, i) =>
            LET volume == bottomGasVolume(standingData)
                diff == results[r].remainingBackGasLiters - results[i].remainingBackGasLiters
            IN /\ diff < volume /\ 0 - diff < volume
               /\ ReportedThreshold(r) % 10 = 0
               /\ ReportedThreshold(r) * volume <= results[r].remainingBackGasLiters
               /\ ~results[i].turnWarning

(* a possible kill-stage recalculation at a primary pressure that is not a  *)
(* multiple of 10, followed by a swim breathed from the picked-up stage     *)
C19_Witness ==
    /\ Done
    /\ \E r, i \in Indices :
          /\ StageCoversSideTrip(r, i)
          /\ IsType(i, "swim")
          /\ Get(results[r].recalculation).possible
          /\ ReportedThreshold(r) * bottomGasVolume(standingData)
                 < results[r].remainingBackGasLiters
          /\ PrimaryBelow(r, turnPressureBar(standingData) + 40)

(* twice the litres reserved in primary gas for the stages that ask for it: *)
(* (fill pressure - drop pressure) * volume with drop pressure fill / 2 + 15 *)
RECURSIVE TwiceReserved(_)
TwiceReserved(k) ==
    IF k = 0 THEN 0
    ELSE (IF standingData.stages[k].reserveInBackGas
          THEN Litres(standingData.stages[k].fillPressure - 30,
                      getStageVolume(standingData.stages[k].tankType))
          ELSE 0) + TwiceReserved(k - 1)

(* six times the usable primary gas:                                        *)
(* (total - reservations) / 3 - conservatism * tank volume                  *)
SixTimesUsable ==
    2 * bottomGasVolume(standingData) * standingData.bottomGasFillPressure
        - TwiceReserved(NumStages)
        - 6 * OrElse(standingData.conservatism, 0) * bottomGasVolume(standingData)

(* C20: usable primary gas is (total primary volume - stage reservations)   *)
(* / 3 - conservatism * tank volume; the turn pressure is (fill pressure -  *)
(* usable pressure) rounded up to a multiple of 10; usableBackGasRounded is *)
(* the usable pressure rounded down to a multiple of 10, times the tank     *)
(* volume; rate 20, 22 L at 220 bar, no stages and no conservatism give a   *)
(* turn pressure of 150 bar.                                                *)
C20_TurnPressure ==
    LET volume == bottomGasVolume(standingData)
        total == volume * standingData.bottomGasFillPressure
        usable == DiveCalculation.usableBackGas
        rounded == DiveCalculation.usableBackGasRounded
        turn == turnPressureBar(standingData)
    IN /\ 6 * usable.num = SixTimesUsable * usable.den
       /\ turn % 10 = 0
       /\ (turn - 10) * 6 * volume < 6 * total - SixTimesUsable
       /\ 6 * total - SixTimesUsable <= turn * 6 * volume
       /\ rounded.den = 1 /\ rounded.num % (10 * volume) = 0
       /\ 6 * rounded.num <= SixTimesUsable
       /\ SixTimesUsable < 6 * (rounded.num + 10 * volume)
       /\ (standingData.scr = 20 /\ volume = 22 /\ standingData.bottomGasFillPressure = 220
              /\ NumStages = 0 /\ OrElse(standingData.conservatism, 0) = 0) => turn = 150

(* the example configuration after a calculation: 73.33 bar usable, so     *)
(* 1540 L rounded down, and a swim that ends above the turn pressure        *)
C20_Witness ==
    /\ Done
    /\ standingData.scr = 20 /\ standingData.bottomGasFillPressure = 220
    /\ bottomGasVolume(standingData) = 22
    /\ NumStages = 0 /\ OrElse(standingData.conservatism, 0) = 0
    /\ DiveCalculation.usableBackGasRounded.num = 1540
    /\ 3 * DiveCalculation.usableBackGas.num = 4840 * DiveCalculation.usableBackGas.den
    /\ \E i \in Indices :
          /\ IsType(i, "swim") /\ ~results[i].turnWarning
          /\ ~PrimaryBelow(i, turnPressureBar(standingData))

----------------------------------------------------------------------------
(* C21 (calculateDive is a pure, deterministic function) is not stated: in  *)
(* this development a call is the sequence of steps from the set-up code to *)
(* the return statement, every variable of the function is set by the       *)
(* set-up code, and no step of the call assigns the configuration or the    *)
(* section list.  That two calls with equal arguments agree is then true of *)
(* the definitions whatever the code does, and the aliasing through which   *)
(* the code could break it (a result sharing an object with an argument or  *)
(* with a later call) has no counterpart in values without identity.        *)

----------------------------------------------------------------------------
(* the snapshot of result i holds one state per configured stage, in order *)
OneStatePerStage(i) ==
    /\ Len(results[i].stageStates) = NumStages
    /\ \A k \in 1..NumStages : results[i].stageStates[k].id = standingData.stages[k].id

(* C22: calculateDive returns exactly one result per section, in section    *)
(* order and with the section's id; every result's stage snapshot holds one *)
(* state per configured stage, in configuration order; a snapshot reflects  *)
(* the stage states right after its own section and is not changed by later *)
(* sections.                                                                *)
C22_OneResultPerSection ==
    /\ [](Done => Len(results) = Len(sections))
    /\ [](\A i \in Indices : results[i].sectionId = sections[i].id /\ OneStatePerStage(i))
    /\ [][Len(results') = Len(results) + 1
            => results'[Len(results')].stageStates = stageStates']_vars
    /\ [][\A i \in Indices :
            i <= Len(results') => results'[i].stageStates = results[i].stageStates]_vars

(* two stages, and a later section has changed a stage after an earlier     *)
(* snapshot was taken                                                       *)
C22_Witness ==
    /\ Done /\ NumStages = 2
    /\ \E i, j \in Indices :
          /\ i < j
          /\ results[i].stageStates[1].dropped # results[j].stageStates[1].dropped
          /\ results[i].stageStates[2].currentPressure
                 > results[j].stageStates[2].currentPressure

----------------------------------------------------------------------------
(* section i is a stage-event whose stageId names no configured stage *)
NamesNoStage(i) ==
    /\ IsType(i, "stage-drop")
    /\ \A k \in 1..NumStages : Some(standingData.stages[k].id) # sections[i].stageId

(* C23: a stage-event section whose stageId matches no configured stage (or *)
(* that has no stageId) is a no-op for the stages: no stage's dropped flag, *)
(* pressure or drop pressure changes and no advisory is recorded; the       *)
(* calculation goes on, and the section only charges its standing time to   *)
(* primary gas.                                                             *)
C23_UnknownStage ==
    /\ \A i \in Indices :
          NamesNoStage(i) =>
             /\ \A k \in 1..NumStages :
                   /\ results[i].stageStates[k].dropped = StatesBefore(i)[k].dropped
                   /\ results[i].stageStates[k].currentPressure
                          = StatesBefore(i)[k].currentPressure
                   /\ results[i].stageStates[k].dropPressure = StatesBefore(i)[k].dropPressure
             /\ results[i].stageDroppedIds = <<>>
             /\ \A a \in 1..Len(pendingDropInserts) :
                   pendingDropInserts[a].afterSectionId # sections[i].id
             /\ 10 * PrimaryDrawn(i)
                    = standingData.scr * (results[i].depth + 10) * OrElse(standingData.stageStandingTime, 2)
    /\ (pc = "first" /\ si <= Len(sections) /\ NamesNoStage(si)) => ENABLED FirstPass

(* both kinds of reference, one on the way in and one on the way back,      *)
(* while the configured stage is carried with gas                           *)
C23_Witness ==
    /\ Done
    /\ \E i, j \in Indices :
          /\ NamesNoStage(i) /\ sections[i].stageId = None /\ ~results[i].isWayBack
          /\ NamesNoStage(j) /\ sections[j].stageId = Some("zz") /\ results[j].isWayBack
          /\ ~results[i].stageStates[1].dropped
          /\ PrimaryDrawn(i) > 0

----------------------------------------------------------------------------
(* the depth of the most recent swim at or before section i, 0 if none *)
RECURSIVE DepthOfLastSwim(_)
DepthOfLastSwim(i) ==
    IF i = 0 THEN 0
    ELSE IF IsType(i, "swim") THEN sections[i].avgDepth
    ELSE DepthOfLastSwim(i - 1)

(* C24: a stage-event section draws its standing-time demand from primary   *)
(* gas only: no stage's current pressure changes across it, even when an    *)
(* un-dropped stage with available gas is carried, and the primary volume   *)
(* decreases by exactly rate * (current depth / 10 + 1) * standing time.    *)
C24_StandingTimeFromPrimary ==
    \A i \in Indices :
        IsType(i, "stage-drop") =>
            /\ \A k \in 1..NumStages :
                  results[i].stageStates[k].currentPressure = StatesBefore(i)[k].currentPressure
            /\ 10 * PrimaryDrawn(i)
                   = standingData.scr * (DepthOfLastSwim(i) + 10) * OrElse(standingData.stageStandingTime, 2)

(* a pickup below the surface: the stage is carried again with gas above    *)
(* its drop pressure, and the standing time was still taken from primary gas *)
C24_Witness ==
    \E i \in Indices : \E k \in 1..NumStages :
        /\ IsType(i, "stage-drop") /\ results[i].isWayBack
        /\ StatesBefore(i)[k].dropped /\ ~results[i].stageStates[k].dropped
        /\ results[i].stageStates[k].currentPressure > results[i].stageStates[k].dropPressure
        /\ results[i].depth > 0
        /\ PrimaryDrawn(i) > 0

(* the demand of the sections up to i, and the litres gone from the stages *)
RECURSIVE ConsumedUpTo(_)
ConsumedUpTo(i) == IF i = 0 THEN 0 ELSE results[i].gasConsumed + ConsumedUpTo(i - 1)

RECURSIVE GoneFromStages(_, _)
GoneFromStages(i, k) ==
    IF k = 0 THEN 0
    ELSE Litres(results[i].stageStates[k].initialPressure
                    - results[i].stageStates[k].currentPressure,
                results[i].stageStates[k].volume)
         + GoneFromStages(i, k - 1)

(* C25: gas is conserved and primary gas is never clamped: after every      *)
(* section the remaining primary volume is the total primary volume minus   *)
(* backGasUsedTotal (it may be negative), and the sum of gasConsumed over   *)
(* the sections so far is backGasUsedTotal plus the sum over the stages of  *)
(* (initial pressure - current pressure) * stage volume.                    *)
C25_Conservation ==
    \A i \in Indices :
        /\ results[i].remainingBackGasLiters
               = bottomGasVolume(standingData) * standingData.bottomGasFillPressure
                     - results[i].backGasUsedTotal
        /\ ConsumedUpTo(i) = results[i].backGasUsedTotal + GoneFromStages(i, NumStages)

(* the plan overdraws the primary tank after breathing from the stages *)
C25_Witness ==
    \E i \in Indices :
        /\ results[i].remainingBackGasLiters < 0
        /\ GoneFromStages(i, NumStages) > 0
        /\ bottomGasVolume(standingData) * standingData.bottomGasFillPressure > 0

----------------------------------------------------------------------------
(* C26: per-section time and depth: a swim takes distance / swim speed (0   *)
(* when the swim speed is not positive) at its own depth, which becomes the *)
(* current depth; t-left and t-right take 0 minutes, jump-left and          *)
(* jump-right 2 minutes, a stage-event the configured standing time,        *)
(* turnaround and recalculation 0 minutes, all at the depth of the most     *)
(* recent swim (0 before any swim); the demand of every section is          *)
(* rate * (depth / 10 + 1) * time.                                          *)
C26_TimeAndDepth ==
    \A i \in Indices :
        /\ IsType(i, "swim") =>
              IF standingData.swimSpeed > 0
              THEN results[i].time * standingData.swimSpeed = sections[i].distance
              ELSE results[i].time = 0
        /\ (IsType(i, "t-left") \/ IsType(i, "t-right")) => results[i].time = 0
        /\ (IsType(i, "jump-left") \/ IsType(i, "jump-right")) => results[i].time = 2
        /\ IsType(i, "stage-drop") => results[i].time = OrElse(standingData.stageStandingTime, 2)
        /\ (IsType(i, "turnaround") \/ IsType(i, "recalculation")) => results[i].time = 0
        /\ results[i].depth = DepthOfLastSwim(i)
        /\ 10 * results[i].gasConsumed
               = standingData.scr * (results[i].depth + 10) * results[i].time

(* with a swim speed that is not positive, a swim takes no time but sets    *)
(* the depth at which a later jump breathes for 2 minutes                   *)
C26_Witness ==
    /\ standingData.swimSpeed <= 0
    /\ \E i, j \in Indices :
          /\ i < j /\ IsType(i, "swim") /\ sections[i].distance > 0
          /\ results[i].gasConsumed = 0
          /\ IsType(j, "jump-right") /\ results[j].depth = sections[i].avgDepth
          /\ results[j].depth > 0
          /\ 10 * results[j].gasConsumed = standingData.scr * (results[j].depth + 10) * 2

----------------------------------------------------------------------------
RECURSIVE TimeUpTo(_)
TimeUpTo(i) == IF i = 0 THEN 0 ELSE results[i].time + TimeUpTo(i - 1)

RECURSIVE TimeDepthUpTo(_)
TimeDepthUpTo(i) ==
    IF i = 0 THEN 0 ELSE results[i].time * results[i].depth + TimeDepthUpTo(i - 1)

(* C27: running aggregates: after every section, runningTime is the sum of  *)
(* the times of all sections so far and runningAvgDepth is the sum of       *)
(* time * depth divided by that sum of times (0 while the total time is 0), *)
(* whatever the section types are.                                          *)
C27_RunningAggregates ==
    \A i \in Indices :
        /\ results[i].runningTime = TimeUpTo(i)
        /\ IF TimeUpTo(i) > 0
           THEN results[i].runningAvgDepth.num * TimeUpTo(i)
                    = TimeDepthUpTo(i) * results[i].runningAvgDepth.den
           ELSE results[i].runningAvgDepth.num = 0

(* swims at two depths and a section that is not a swim but takes time: the *)
(* average is not a whole number of metres                                  *)
C27_Witness ==
    \E i \in Indices :
        /\ ~IsType(i, "swim") /\ results[i].time > 0 /\ results[i].depth > 0
        /\ results[i].runningAvgDepth.num % results[i].runningAvgDepth.den # 0
        /\ \E j \in 1..(i - 1) : results[j].runningTime = 0

----------------------------------------------------------------------------
(* section i is a pickup that takes effect on stage k: a stage-drop section *)
(* on the way back that names stage k while it is dropped                   *)
EffectivePickup(i, k) ==
    /\ IsType(i, "stage-drop") /\ results[i].isWayBack
    /\ sections[i].stageId = Some(standingData.stages[k].id)
    /\ StatesBefore(i)[k].dropped

(* C28: a stage's current pressure never rises: between the snapshots of    *)
(* two consecutive sections each stage's current pressure is unchanged or   *)
(* lower; the only change a pickup makes is to clear the dropped flag and   *)
(* set the drop pressure to 0; the drop pressure is initial / 2 + 15 from   *)
(* the start of the run until the first effective pickup and 0 from then on. *)
C28_PressureNeverRises ==
    \A i \in Indices : \A k \in 1..NumStages :
        LET before == StatesBefore(i)[k]
            after == results[i].stageStates[k]
        IN /\ after.currentPressure <= before.currentPressure
           /\ (IsType(i, "stage-drop") /\ results[i].isWayBack) =>
                 IF EffectivePickup(i, k)
                 THEN after = [before EXCEPT !.dropped = FALSE, !.dropPressure = 0]
                 ELSE after = before
           /\ IF \E j \in 1..i : EffectivePickup(j, k)
              THEN after.dropPressure = 0
              ELSE 2 * after.dropPressure = after.initialPressure + 30

(* after an effective pickup a swim breathes the stage below the pressure   *)
(* at which it would have been dropped on the way in                        *)
C28_Witness ==
    \E i, j \in Indices : \E k \in 1..NumStages :
        /\ j < i /\ EffectivePickup(j, k)
        /\ IsType(i, "swim") /\ StageDrawn(i, k) > 0
        /\ 2 * results[i].stageStates[k].currentPressure
               < results[i].stageStates[k].initialPressure + 30

----------------------------------------------------------------------------
(* C29 as stated: in the back-gas re-entry scenarios possible is false when *)
(* the available budget (remaining primary - reservation - 2 * gas to       *)
(* exit) / 3 is not positive and true when it is positive.                  *)
C29_AsStated ==
    \A i \in Indices :
        IsReentry(i) => (Get(results[i].recalculation).possible <=> BudgetTimes3(i) > 0)

(* C29, amended: in the back-gas re-entry scenarios possible is false when  *)
(* the available budget is below 10 bar of primary gas (its pressure        *)
(* rounded down to a multiple of 10 is 0; in particular when it is not      *)
(* positive) and true when it is at least 10 bar; an infeasible             *)
(* recalculation is reported as possible: false in its result and the       *)
(* calculation goes on.                                                     *)
C29_Feasibility ==
    /\ \A i \in Indices :
          IsReentry(i) =>
             (Get(results[i].recalculation).possible
                 <=> BudgetTimes3(i) >= 3 * 10 * bottomGasVolume(standingData))
    /\ \A i \in Indices :
          (IsType(i, "recalculation") /\ SecondPassOver(i)) => IsSome(results[i].recalculation)
    /\ (pc = "second" /\ si <= Len(sections) /\ IsType(si, "recalculation"))
          => ENABLED SecondPass

(* a back-gas re-entry whose budget is positive but below 10 bar, reported  *)
(* as not possible, and the calculation has returned                        *)
C29_Witness ==
    /\ Done
    /\ \E i \in Indices :
          /\ IsReentry(i)
          /\ BudgetTimes3(i) > 0
          /\ BudgetTimes3(i) < 3 * 10 * bottomGasVolume(standingData)
          /\ ~Get(results[i].recalculation).possible

----------------------------------------------------------------------------
(* the litres available at the start of section i under the budget in       *)
(* force: the available gas reported by the recalculation whose side trip i *)
(* is on, less the primary gas used since that recalculation; otherwise the *)
(* rounded usable budget less the primary gas used before i                 *)
AvailableAtStart(i) ==
    IF OnSideTrip(i)
    THEN Get(results[SideTripOf(i)].recalculation).availableGasLiters
             - (results[i - 1].backGasUsedTotal - results[SideTripOf(i)].backGasUsedTotal)
    ELSE usableBackGasRounded(standingData).num
             - (IF i > 1 THEN results[i - 1].backGasUsedTotal ELSE 0)

(* C30 (the code does not satisfy it): for a breached swim section          *)
(* fixDistance returns floor(original distance * available / gas consumed   *)
(* in that section), where the gas consumed is the total consumption of the *)
(* section (stage gas and primary gas) and available is the budget in force *)
(* at the start of the section less what was consumed before it; it returns *)
(* 0 when no budget remains.                                                *)
C30_FixFormula ==
    Done =>
        \A i \in Indices :
            (Breached(i) /\ results[i].gasConsumed > 0) =>
                fixDistance(sections, results, usableBackGasRounded(standingData), i)
                    = Some(IF AvailableAtStart(i) <= 0 THEN 0
                           ELSE (sections[i].distance * AvailableAtStart(i))
                                    \div results[i].gasConsumed)

----------------------------------------------------------------------------
(* section i leaves the primary volume and every stage as they were *)
LeavesGasUnchanged(i) ==
    /\ results[i].remainingBackGasLiters = PrimaryBefore(i)
    /\ \A k \in 1..NumStages :
          /\ results[i].stageStates[k].currentPressure = StatesBefore(i)[k].currentPressure
          /\ results[i].stageStates[k].dropped = StatesBefore(i)[k].dropped

(* C31: degenerate configurations yield zeros: with a swim speed that is    *)
(* not positive every swim section has time 0 and gasConsumed 0 and leaves  *)
(* the primary volume, every stage pressure and every dropped flag          *)
(* unchanged; with consumption rate 0 every section has gasConsumed 0, no   *)
(* primary or stage gas changes over the whole run and no stage is dropped  *)
(* inline.                                                                  *)
C31_Degenerate ==
    /\ standingData.swimSpeed <= 0 =>
          \A i \in Indices :
              IsType(i, "swim") =>
                  results[i].time = 0 /\ results[i].gasConsumed = 0 /\ LeavesGasUnchanged(i)
    /\ standingData.scr = 0 =>
          /\ \A i \in Indices :
                /\ results[i].gasConsumed = 0
                /\ results[i].remainingBackGasLiters = totalBackGas(standingData)
                /\ \A k \in 1..NumStages :
                      results[i].stageStates[k].currentPressure
                          = standingData.stages[k].fillPressure
                /\ results[i].stageDroppedIds = <<>>
          /\ pendingDropInserts = <<>>

(* swim speed 0 with a carried stage: a swim of 50 m took nothing, and a    *)
(* jump after it breathed the stage                                         *)
C31_Witness ==
    /\ Done /\ standingData.swimSpeed = 0 /\ NumStages = 1
    /\ \E i, j \in Indices :
          /\ i < j /\ IsType(i, "swim") /\ sections[i].distance > 0
          /\ ~results[i].stageStates[1].dropped
          /\ IsType(j, "jump-left") /\ StageDrawn(j, 1) > 0

----------------------------------------------------------------------------
(* The calculation advises the marker the list holds already: the first     *)
(* advisory is for a section that is followed by a stage-drop marker for    *)
(* the advised stage, and it asks for no split.  The effect then inserts    *)
(* one more such marker at the same place.  The sections up to the advised  *)
(* one stay the same, and so do the stages counted as dropped by a marker,  *)
(* because the new marker lies on the same leg as the one behind it; so the *)
(* next calculation gives the same first advisory, and every later one.     *)
AdvisedAgain ==
    /\ Done
    /\ Len(pendingDropInserts) > 0
    /\ LET advice == pendingDropInserts[1]
           idx == findIndex(sections, advice.afterSectionId)
       IN /\ idx # 0 /\ idx < Len(sections)
          /\ sections[idx + 1].type = "stage-drop"
          /\ sections[idx + 1].stageId = Some(advice.stageId)
          /\ ~(/\ IsSome(advice.splitAtDistance)
               /\ Get(advice.splitAtDistance) > 0
               /\ Get(advice.splitAtDistance) < sections[idx].distance
               /\ sections[idx].type = "swim")

(* C32 (the code does not satisfy it): the auto-insert loop terminates:     *)
(* from any section list and configuration, materialising the first pending *)
(* advisory and running calculateDive again, repeatedly, reaches a section  *)
(* list for which pendingDropInserts is empty, also when the inline drop    *)
(* happens on a return leg.  A loop that reaches such a list never comes,   *)
(* after a run of the effect, to a calculation that advises the marker the  *)
(* list holds already: from there it goes on without end.                   *)
C32_AutoInsertTerminates == effectRuns > 0 => ~AdvisedAgain

----------------------------------------------------------------------------
(* the threshold in force, while the second loop holds one, is at most the  *)
(* primary pressure at the last recalculation the loop has passed           *)
InForceWithinPressure ==
    IsSome(activeRecalcTurnPressure) =>
        /\ LastRecalculationBefore(si) # 0
        /\ RatLeq(Get(activeRecalcTurnPressure),
                  results[LastRecalculationBefore(si)].remainingBackGasBar)

(* no primary gas has been drawn from recalculation r up to and including   *)
(* section i                                                                *)
NoPrimarySince(r, i) == \A j \in (r + 1)..i : PrimaryDrawn(j) = 0

----------------------------------------------------------------------------

(* C34 (the code does not satisfy it): whenever a recalculation reports the *)
(* kill-stage scenario, the selected stage can be breathed by the simulator *)
(* on the following sections: it is un-dropped with current pressure        *)
(* strictly above its drop pressure, and the reported available stage gas   *)
(* does not exceed (current pressure - drop pressure) * stage volume.       *)
C34_KillStageBreathable ==
    \A i \in Indices :
        (IsSome(results[i].recalculation)
            /\ Get(results[i].recalculation).scenario = "kill-stage") =>
           LET st == results[i].stageStates[KillStageOf(i)]
           IN /\ ~st.dropped
              /\ st.currentPressure > st.dropPressure
              /\ Get(results[i].recalculation).availableGasLiters <= Breathable(st)

----------------------------------------------------------------------------
(* C35 as stated: in every snapshot every stage satisfies                   *)
(* 0 <= drop pressure <= current pressure <= initial pressure, for every    *)
(* non-negative stage fill pressure, fill pressures below 30 bar included.  *)
C35_AsStated ==
    \A i \in Indices :
        \A k \in 1..NumStages :
            LET st == results[i].stageStates[k]
            IN /\ 0 <= st.dropPressure
               /\ st.dropPressure <= st.currentPressure
               /\ st.currentPressure <= st.initialPressure

(* C35: in every snapshot every stage satisfies 0 <= drop pressure and      *)
(* 0 <= current pressure <= initial pressure, and drop pressure <= current  *)
(* pressure when its fill pressure is at least 30 bar or it has been picked *)
(* up; a stage filled below 30 bar starts below its drop pressure and keeps *)
(* its fill pressure until it is picked up.  Stage gas never goes negative  *)
(* and is never drawn below the drop pressure.                              *)
C35_StageBounds ==
    \A i \in Indices :
        \A k \in 1..NumStages :
            LET st == results[i].stageStates[k]
            IN /\ 0 <= st.dropPressure
               /\ 0 <= st.currentPressure
               /\ st.currentPressure <= st.initialPressure
               /\ (st.initialPressure >= 30 \/ st.dropPressure = 0)
                     => st.dropPressure <= st.currentPressure
               /\ (st.initialPressure < 30 /\ st.dropPressure # 0)
                     => st.currentPressure = st.initialPressure
               /\ StageDrawn(i, k) > 0 => st.dropPressure <= st.currentPressure

(* a stage filled below 30 bar lies below its drop pressure in one snapshot *)
(* and has been picked up and breathed in a later one                       *)
C35_Witness ==
    /\ Done
    /\ \E i, j \in Indices :
          \E k \in 1..NumStages :
              /\ i < j
              /\ results[i].stageStates[k].initialPressure < 30
              /\ results[i].stageStates[k].currentPressure
                    < results[i].stageStates[k].dropPressure
              /\ results[j].stageStates[k].dropPressure = 0
              /\ StageDrawn(j, k) > 0

----------------------------------------------------------------------------
(* the configuration with reserveInBackGas turned off for stage k *)
WithoutReserve(sd, k) == [sd EXCEPT !.stages[k].reserveInBackGas = FALSE]

(* C36 (the code does not satisfy it): the stage reservation is never       *)
(* negative for any non-negative stage fill pressure, so effectiveBackGas   *)
(* <= totalBackGas, and turning on reserveInBackGas for a stage never       *)
(* lowers the turn pressure or raises the usable primary gas.               *)
C36_ReservationNeverNegative ==
    /\ stageReservation(standingData) >= 0
    /\ effectiveBackGas(standingData) <= totalBackGas(standingData)
    /\ \A k \in 1..NumStages :
          standingData.stages[k].reserveInBackGas =>
              /\ turnPressureBar(standingData)
                    >= turnPressureBar(WithoutReserve(standingData, k))
              /\ RatLeq(usableBackGas(standingData),
                        usableBackGas(WithoutReserve(standingData, k)))

----------------------------------------------------------------------------
(* sections i < j belong to one run of outbound sections under one          *)
(* threshold: both are outbound, neither is a recalculation, and no         *)
(* recalculation or turnaround lies between them                            *)
SameRun(i, j) ==
    /\ i < j
    /\ ~results[i].isWayBack /\ ~results[j].isWayBack
    /\ ~IsType(i, "recalculation") /\ ~IsType(j, "recalculation")
    /\ \A m \in (i + 1)..(j - 1) : ~IsType(m, "recalculation") /\ ~IsType(m, "turnaround")

(* C37: warnings are monotone within a leg: in a run of consecutive         *)
(* outbound sections with no recalculation or turnaround between them (so   *)
(* one threshold applies), once a section has turnWarning true every later  *)
(* section of the run has turnWarning true.                                 *)
C37_MonotoneWarnings ==
    Done =>
        \A i, j \in Indices :
            (SameRun(i, j) /\ results[i].turnWarning) => results[j].turnWarning

(* a run on the side trip of a recalculation with a section that is not     *)
(* flagged and two later ones that are                                      *)
C37_Witness ==
    /\ Done
    /\ \E h, i, j \in Indices :
          /\ SameRun(h, i) /\ SameRun(i, j) /\ OnSideTrip(h)
          /\ ~results[h].turnWarning /\ results[i].turnWarning /\ results[j].turnWarning
          /\ PrimaryDrawn(j) > 0

----------------------------------------------------------------------------
(* C38: rounding is conservative on both sides: the turn pressure is a      *)
(* multiple of 10 with turn pressure * tank volume >= total primary volume  *)
(* - usable primary gas, and usableBackGasRounded <= usableBackGas; when    *)
(* the fill pressure is a multiple of 10, turn pressure = fill pressure -   *)
(* rounded usable pressure exactly.                                         *)
C38_ConservativeRounding ==
    Done =>
        LET volume == bottomGasVolume(standingData)
            total == DiveCalculation.totalBackGas
            usable == DiveCalculation.usableBackGas
            rounded == DiveCalculation.usableBackGasRounded
            turn == turnPressureBar(standingData)
        IN /\ turn % 10 = 0
           /\ RatLeq(Rat(total * usable.den - usable.num, usable.den), Rat(turn * volume, 1))
           /\ RatLeq(rounded, usable)
           /\ standingData.bottomGasFillPressure % 10 = 0 =>
                 RatEq(Rat(turn * volume, 1),
                       Rat(standingData.bottomGasFillPressure * volume * rounded.den
                              - rounded.num, rounded.den))

(* both roundings are strict for a fill pressure that is a multiple of 10   *)
(* (24 L at 60 bar with a reserved stage: 18.47 bar usable, turn pressure   *)
(* 50 bar)                                                                  *)
C38_Witness ==
    /\ Done
    /\ standingData.bottomGasFillPressure % 10 = 0
    /\ standingData.bottomGasFillPressure > 0
    /\ RatLess(DiveCalculation.usableBackGasRounded, DiveCalculation.usableBackGas)
    /\ RatLess(Rat(3 * totalBackGas(standingData) - usableBackGas(standingData).num, 3),
               Rat(turnPressureBar(standingData) * bottomGasVolume(standingData), 1))
    /\ Len(results) > 0

----------------------------------------------------------------------------
(* storage.ts: what is saved and loaded *)
(* undefined properties left out, at every depth: reading a property that  *)
(* is missing gives undefined                                               *)
RECURSIVE WithoutUndefined(_)
RECURSIVE DefinedMembers(_, _)
WithoutUndefined(v) ==
    IF v.t = "array"
    THEN JsArray([k \in 1..Len(v.items) |-> WithoutUndefined(v.items[k])])
    ELSE IF v.t = "object"
    THEN LET m == DefinedMembers(v, 1) IN JsObject(m.keys, m.items)
    ELSE v

DefinedMembers(v, k) ==
    IF k > Len(v.keys) THEN [keys |-> <<>>, items |-> <<>>]
    ELSE LET rest == DefinedMembers(v, k + 1)
         IN IF v.items[k].t = "undefined" THEN rest
            ELSE [keys |-> << v.keys[k] >> \o rest.keys,
                  items |-> << WithoutUndefined(v.items[k]) >> \o rest.items]

(* C39 as stated: loadStandingData and loadSections never throw: they       *)
(* return null when the key is absent or empty and when the stored text is  *)
(* not valid JSON, and after saveStandingData(x) or saveSections(x) the     *)
(* matching load returns a value equal to x.                                *)
C39_AsStated ==
    \A key \in StorageKeys :
        IsSome(loaded[key]) =>
            LET call == Get(loaded[key])
            IN /\ ~call.outcome.threw
               /\ call.raw \in ForeignContents => call.outcome.value = JsNull
               /\ IsSome(call.saved) => call.outcome.value = Get(call.saved)

(* C39 (amended): loadStandingData and loadSections never throw: they       *)
(* return null when the key is absent or empty and when the stored text is  *)
(* not valid JSON, and after saveStandingData(x) or saveSections(x) the     *)
(* matching load returns x without the properties whose value is undefined: *)
(* every other property, with its value and in its place.                   *)
C39_LoadNeverThrows ==
    \A key \in StorageKeys :
        IsSome(loaded[key]) =>
            LET call == Get(loaded[key])
            IN /\ ~call.outcome.threw
               /\ call.raw \in ForeignContents => call.outcome.value = JsNull
               /\ IsSome(call.saved) =>
                     call.outcome.value = WithoutUndefined(Get(call.saved))

(* the editor opened on a configuration text that is not JSON and on the    *)
(* text of a section list that was saved with an undefined property         *)
C39_Witness ==
    /\ IsSome(loaded[STANDING_DATA_KEY])
    /\ IsSome(Get(loaded[STANDING_DATA_KEY]).raw)
    /\ Get(Get(loaded[STANDING_DATA_KEY]).raw) \in InvalidTexts
    /\ standingData = DefaultStandingData
    /\ IsSome(loaded[SECTIONS_KEY])
    /\ IsSome(Get(loaded[SECTIONS_KEY]).saved)
    /\ Get(loaded[SECTIONS_KEY]).outcome.value # Get(Get(loaded[SECTIONS_KEY]).saved)
    /\ Len(sections) > 0

----------------------------------------------------------------------------
SectionIds(secs) == {secs[k].id : k \in 1..Len(secs)}

(* a step of the auto-insert effect: the only step that leaves a finished   *)
(* calculation with a new section list                                      *)
IsAutoInsertStep == pc = "done" /\ sections' # sections

(* list `after` is list `before` with one stage-drop marker for the advised *)
(* stage directly after the advised section and every section of `before`   *)
(* kept, in order; the advised section is kept as it is, or it is a swim    *)
(* split into two swims of its depth whose distances are positive and sum   *)
(* to its distance                                                          *)
KeepsPlan(before, after, advice) ==
    LET idx == findIndex(before, advice.afterSectionId)
        added == {k \in 1..Len(after) : after[k].id \notin SectionIds(before)}
        IsOld(s) == s.id \in SectionIds(before)
        kept == SelectSeq(after, IsOld)
    IN /\ idx # 0
       /\ Len(after) = Len(before) + Cardinality(added)
       /\ {k \in added : after[k].type = "stage-drop"} = {idx + 1}
       /\ after[idx + 1].stageId = Some(advice.stageId)
       /\ after[idx].id = advice.afterSectionId
       /\ Len(kept) = Len(before)
       /\ \A k \in 1..Len(before) : k # idx => kept[k] = before[k]
       /\ \/ /\ added = {idx + 1}
             /\ kept[idx] = before[idx]
          \/ /\ added = {idx + 1, idx + 2}
             /\ before[idx].type = "swim"
             /\ kept[idx] = [before[idx] EXCEPT !.distance = after[idx].distance]
             /\ after[idx + 2].type = "swim"
             /\ after[idx + 2].avgDepth = before[idx].avgDepth
             /\ after[idx].distance > 0 /\ after[idx + 2].distance > 0
             /\ after[idx].distance + after[idx + 2].distance = before[idx].distance

(* every step of the effect keeps the plan *)
InsertKeepsPlan ==
    IsAutoInsertStep => KeepsPlan(sections, sections', pendingDropInserts[1])

(* the advisories the effect can meet for section k of the list: either     *)
(* stage, with no split distance or any from 0 to beyond the section        *)
AdvicesFor(secs, k) ==
    { [afterSectionId |-> secs[k].id, stageId |-> stageId, splitAtDistance |-> split] :
         stageId \in {"s1", "s2"},
         split \in {None} \cup {Some(d) : d \in 0..(secs[k].distance + 1)} }

(* whatever section of the list the first advisory names, and whatever      *)
(* advisories follow it, the list the effect would assign keeps the plan    *)
InsertKeepsAnyPlan ==
    \A k \in 1..Len(sections) : \A advice \in AdvicesFor(sections, k) :
        /\ KeepsPlan(sections, autoInsert(sections, << advice >>), advice)
        /\ autoInsert(sections, << advice >> \o pendingDropInserts)
              = autoInsert(sections, << advice >>)

(* an advisory for a section id that no section of the list carries (ids    *)
(* of the model are positive)                                               *)
MissingAdvice(stageId, split) ==
    [afterSectionId |-> 0, stageId |-> stageId, splitAtDistance |-> split]

InsertIgnoresMissingId ==
    \A split \in {None, Some(0), Some(1)} :
        autoInsert(sections, << MissingAdvice("s1", split) >>) = sections

(* C40: one auto-insert step keeps the plan intact: it adds exactly one     *)
(* stage-event marker for the advised stage directly after the advised      *)
(* section, keeps the ids and relative order of all existing sections, and  *)
(* when it splits a swim the two parts have the original depth and          *)
(* distances that sum to the original distance; it changes nothing when the *)
(* advised section id is not in the list.                                   *)
C40_InsertKeepsPlan ==
    /\ [][InsertKeepsPlan]_vars
    /\ []InsertKeepsAnyPlan
    /\ []InsertIgnoresMissingId

(* right after a step that split a swim that is not the last section: the   *)
(* marker and the remainder, with the two newest ids, lie before a section  *)
(* with an older id                                                         *)
C40_Witness ==
    /\ pc = "first" /\ si = 1
    /\ \E k \in 1..Len(sections) :
          /\ k + 3 <= Len(sections)
          /\ sections[k].type = "swim" /\ sections[k + 2].type = "swim"
          /\ sections[k].distance + sections[k + 2].distance = 3
          /\ sections[k + 1].type = "stage-drop" /\ sections[k + 1].stageId = Some("s1")
          /\ sections[k + 1].id > sections[k + 3].id
          /\ sections[k + 2].id = sections[k + 1].id + 1

====
